---- MODULE Spec2Model ----
(***************************************************************************)
(* Model of the oreacle-bot decision and consistency engine:               *)
(*   - the pydantic data models Evidence / Extraction (oreacle_bot/models) *)
(*   - the decision gates passes_yes_gate / passes_no_gate / final_verdict *)
(*     (src/decision.py)                                                   *)
(*   - the ladder monotonicity checker (oreaclebot/ladder.py)              *)
(*   - the relevance prefilter (oreacle_bot/prefilter.py)                  *)
(*   - the monitoring cycle run_once (src/monitor.py) with its seen store  *)
(*     (oreacle_bot/storage.py)                                            *)
(*                                                                         *)
(* Conventions.  Confidence and probabilities are floats in the program;   *)
(* here they are integers in hundredths (0.75 is 75), compared exactly.    *)
(* English terms are strings and are lower-cased character by character.   *)
(* A Chinese term is a sequence of character tokens, one token per Chinese *)
(* character (its pinyin with tone number), so that the substring tests of *)
(* the code are contiguous-subsequence tests here.                         *)
(***************************************************************************)
EXTENDS Integers, Sequences, FiniteSets, TLC

VARIABLES
    pc,          \* position of the extraction pipeline
    raw,         \* the data last handed to a model constructor
    x,           \* the Extraction constructed from raw (None when rejected)
    ev,          \* the Evidence constructed from raw (None when rejected)
    err,         \* the exception raised by the last constructor call
    verdict,     \* the value final_verdict returned for x
    lpc,         \* position of the ladder checker
    markets,     \* the market list handed to check_group_monotonicity
    min_violation_size,  \* LadderMonotonicity.min_violation_size
    violations,  \* the list check_group_monotonicity returned
    asked,       \* the deadline clauses the question was written with
    qtext,       \* the question handed to extract_deadline_from_question
    deadline,    \* the value extract_deadline_from_question returned
    grouped,     \* the dict group_markets_by_base_question returned
    all_violations,      \* the list the last check_all_violations returned
    earlier_violations,  \* the list the run before the last returned
    fpc,         \* position of the relevance prefilter
    fitem,       \* the item handed to enhanced_relevance_check
    fbook,       \* the phrasebook handed to it
    passed,      \* the value passes_boolean_filter returned for the title
    fuzzy,       \* the value fuzzy_mine_match returned (when it was called)
    relevant,    \* the value enhanced_relevance_check returned
    ferr,        \* the exception the prefilter raised
    cpc,         \* position of the monitor
    COMMENT_ONLY,        \* monitor.COMMENT_ONLY
    USE_LLM,     \* monitor.USE_LLM
    PHRASEBOOK,  \* monitor.PHRASEBOOK
    store,       \* the seen table: the (source, item_id) keys in it
    new_items,   \* run_once's new_items
    pending,     \* the items the loop over new_items has not reached yet
    done,        \* the identities whose loop body has run in this cycle
    failed,      \* the (identity, step) pairs of the steps that raised in this cycle
    last,        \* what the most recent loop body did
    kpc,         \* position of the ManifoldClient call
    max_retries, \* ManifoldClient.max_retries
    limit_order, \* the LimitOrder handed to place_limit
    request,     \* the arguments of the _make_request call
    attempt,     \* the loop variable of _make_request
    http,        \* the outcomes of the HTTP attempts made so far
    kresult,     \* what the call returned or raised
    spc,         \* position of the SpreadsheetSink
    csv_file,    \* the file at output_path
    appended,    \* the rows written to the file, oldest first
    sink_raised, \* what the last append_row raised to its caller
    pnl,         \* the value get_cumulative_pnl returned
    rpc,         \* position of the violation reporting
    markets_given,       \* run_monotonicity_check got a market list, not None
    found,       \* the violations handed to post_violation_comments
    dry_run,     \* the dry_run argument
    client_mode, \* how the client's post_comment behaves
    calls,       \* the Comments handed to client.post_comment, in order
    comments_posted,     \* the number post_violation_comments returned
    report       \* the dict run_monotonicity_check returned

gateVars == <<pc, raw, x, ev, err, verdict>>
parseVars == <<asked, qtext, deadline>>
snapshotVars == <<grouped, all_violations, earlier_violations>>
ladderVars == <<lpc, markets, min_violation_size, violations, parseVars, snapshotVars>>
filterVars == <<fpc, fitem, fbook, passed, fuzzy, relevant, ferr>>
configVars == <<COMMENT_ONLY, USE_LLM, PHRASEBOOK>>
cycleVars == <<cpc, configVars, store, new_items, pending, done, failed, last>>
clientVars == <<kpc, max_retries, limit_order, request, attempt, http, kresult>>
sinkVars == <<spc, csv_file, appended, sink_raised, pnl>>
reportVars ==
    <<rpc, markets_given, found, dry_run, client_mode, calls, comments_posted, report>>
serviceVars == <<clientVars, sinkVars, reportVars>>
vars == <<gateVars, ladderVars, filterVars, cycleVars, serviceVars>>

\* Python's None, for the object-valued variables
None == [type |-> "NoneType"]
\* pydantic's ValidationError
ValidationError == [type |-> "ValidationError"]
\* a local the code has not assigned yet
Unset == "unset"

\* ------------------------------------------------------------------ bounds
MaxTerms == 2
MaxEvidence == 2
MaxMarkets == 3
MaxClauses == 2
MaxSnapshot == 4
MaxItems == 2
MaxRetries == 3
MaxRows == 2
MaxReport == 3

BoundedSeq(S, n) == UNION {[1..k -> S] : k \in 0..n}

Range(s) == {s[i] : i \in DOMAIN s}

\* ----------------------------------------------------------- str methods
UpperAlphabet == "ABCDEFGHIJKLMNOPQRSTUVWXYZ"
LowerAlphabet == "abcdefghijklmnopqrstuvwxyz"

\* the lower-case form of each upper-case letter
LowerMap ==
    [c \in {SubSeq(UpperAlphabet, i, i) : i \in 1..26} |->
        LET i == CHOOSE k \in 1..26 : SubSeq(UpperAlphabet, k, k) = c
        IN SubSeq(LowerAlphabet, i, i)]

\* str.lower() on one character
LowerChar(c) == IF c \in DOMAIN LowerMap THEN LowerMap[c] ELSE c

RECURSIVE Lower(_)
\* str.lower()
Lower(s) ==
    IF Len(s) = 0 THEN ""
    ELSE LowerChar(SubSeq(s, 1, 1)) \o Lower(SubSeq(s, 2, Len(s)))

\* `sub in s` for strings and for sequences of character tokens
Contains(s, sub) ==
    \E i \in 1..(Len(s) - Len(sub) + 1) : SubSeq(s, i, i + Len(sub) - 1) = sub

IsSpace(c) == c \in {" ", "\t", "\n", "\r"}

RECURSIVE LStrip(_)
LStrip(s) ==
    IF Len(s) > 0 /\ IsSpace(SubSeq(s, 1, 1))
    THEN LStrip(SubSeq(s, 2, Len(s)))
    ELSE s

RECURSIVE RStrip(_)
RStrip(s) ==
    IF Len(s) > 0 /\ IsSpace(SubSeq(s, Len(s), Len(s)))
    THEN RStrip(SubSeq(s, 1, Len(s) - 1))
    ELSE s

\* str.strip()
Strip(s) == RStrip(LStrip(s))

\* truth value of a str
Truthy(s) == Len(s) > 0

\* ------------------------------------------------------------ models.py
AllowedLabel == {"YES_CONDITION", "NO_CONDITION", "AMBIGUOUS", "IRRELEVANT"}
MineMatch == {"JIANXIAWO_MATCH", "POSSIBLE_MATCH", "NO_MATCH"}
EvidenceFields == {"exact_zh_quote", "en_literal", "where_in_doc"}

\* faulty variant: also rejects an empty string
EvidenceValidNonEmpty(d) ==
    /\ EvidenceFields \subseteq DOMAIN d
    /\ \A f \in EvidenceFields : Truthy(d[f])
\* Evidence(**d): the three str fields are required (Field(...)), no
\* constraint on their content.
EvidenceValid(d) == EvidenceFields \subseteq DOMAIN d

\* faulty variant: the interval taken as open
ConfidenceValidOpen(c) == c > 0 /\ c < 100
\* confidence: float = Field(ge=0.0, le=1.0)
ConfidenceValid(c) == c >= 0 /\ c <= 100

\* proposed_label: AllowedLabel
LabelValid(l) == l \in AllowedLabel

\* a field of the input, or the model's default when the input omits it
Get(d, f, default) == IF f \in DOMAIN d THEN d[f] ELSE default

\* faulty variant: a YES/NO label must come with evidence
EvidenceListValidStrict(d) ==
    LET evs == Get(d, "evidence", <<>>) IN
    /\ \A i \in DOMAIN evs : EvidenceValid(evs[i])
    /\ (d.proposed_label \in {"YES_CONDITION", "NO_CONDITION"} => Len(evs) > 0)
\* evidence: List[Evidence] = []   (every entry validated as an Evidence)
EvidenceListValid(d) ==
    LET evs == Get(d, "evidence", <<>>) IN
    \A i \in DOMAIN evs : EvidenceValid(evs[i])

\* Extraction.model_validate(d): required fields present, enumerations and
\* range respected, nested Evidence entries valid.
ExtractionValid(d) ==
    /\ {"doc_url", "mine_match", "proposed_label", "confidence"} \subseteq DOMAIN d
    /\ d.mine_match \in MineMatch
    /\ LabelValid(d.proposed_label)
    /\ ConfidenceValid(d.confidence)
    /\ EvidenceListValid(d)

\* The Extraction object built from valid input: omitted list fields take
\* their default [].  (doc_title, authority and hazards are carried by the
\* program but read by no gate; they are left out.)
Construct(d) ==
    [ doc_url |-> d.doc_url,
      mine_match |-> d.mine_match,
      key_terms_found_zh |-> Get(d, "key_terms_found_zh", <<>>),
      key_terms_found_en |-> Get(d, "key_terms_found_en", <<>>),
      proposed_label |-> d.proposed_label,
      confidence |-> d.confidence,
      evidence |-> Get(d, "evidence", <<>>) ]

\* ----------------------------------------------------------- decision.py
MIN_CONF == 75

YES_ZH == { <<"cai3","kuang4","xu3","ke3","zheng4","hui1","fu4">>,
            <<"hui1","fu4","sheng1","chan3">>,
            <<"hui1","fu4","kai1","cai3">>,
            <<"he2","fa1","cai3","kuang4","xu3","ke3","zheng4">>,
            <<"yan2","xu4">>,
            <<"xu4","qi1">>,
            <<"huan4","fa1">> }
YES_EN == {"mining license renewed", "resume production", "resumption of mining",
           "license renewal", "permit renewal"}
NO_ZH == { <<"jin3","xian4","kan1","tan4">>,
           <<"tan4","kuang4","quan2">>,
           <<"zan4","ting2","sheng1","chan3">>,
           <<"ting2","zhi3","sheng1","chan3">>,
           <<"ze2","ling4","ting2","chan3">> }
NO_EN == {"exploration only", "exploration permit", "suspend production",
          "halt production"}

\* terms_en = {t.lower() for t in x.key_terms_found_en}
terms_en(e) == {Lower(t) : t \in Range(e.key_terms_found_en)}
\* terms_zh = set(x.key_terms_found_zh)
terms_zh(e) == Range(e.key_terms_found_zh)

has_yes(e) == (YES_EN \cap terms_en(e)) # {} \/ (YES_ZH \cap terms_zh(e)) # {}

\* faulty variant: the quote is not stripped
has_quote_nostrip(e) ==
    \E i \in DOMAIN e.evidence : Truthy(e.evidence[i].exact_zh_quote)
\* any(e.exact_zh_quote.strip() for e in x.evidence)
has_quote(e) ==
    \E i \in DOMAIN e.evidence : Truthy(Strip(e.evidence[i].exact_zh_quote))

exploration_flag(e) ==
    \/ \E t \in terms_en(e) : Contains(Lower(t), "exploration")
    \/ \E t \in terms_zh(e) : Contains(t, <<"kan1","tan4">>)

no_flag(e) == (NO_EN \cap terms_en(e)) # {} \/ (NO_ZH \cap terms_zh(e)) # {}

\* faulty variant: confidence must exceed MIN_CONF
passes_yes_gate_strictconf(e) ==
    /\ e.proposed_label = "YES_CONDITION"
    /\ e.mine_match = "JIANXIAWO_MATCH"
    /\ e.confidence > MIN_CONF
    /\ has_yes(e) /\ has_quote(e) /\ ~exploration_flag(e) /\ ~no_flag(e)
passes_yes_gate(e) ==
    /\ e.proposed_label = "YES_CONDITION"
    /\ e.mine_match = "JIANXIAWO_MATCH"
    /\ ~(e.confidence < MIN_CONF)
    /\ has_yes(e) /\ has_quote(e) /\ ~exploration_flag(e) /\ ~no_flag(e)

\* faulty variant: neither the label nor the terms are read
passes_no_gate_match_only(e) ==
    /\ e.mine_match # "NO_MATCH"
    /\ e.confidence >= MIN_CONF
\* faulty variant: the label is not read
passes_no_gate_nolabel(e) ==
    /\ e.mine_match # "NO_MATCH"
    /\ no_flag(e) /\ e.confidence >= MIN_CONF
\* faulty variant: the confidence is not read
passes_no_gate_noconf(e) ==
    /\ e.proposed_label = "NO_CONDITION"
    /\ e.mine_match # "NO_MATCH"
    /\ no_flag(e)
\* faulty variant: a quote is required as in the affirmative gate
passes_no_gate_quote(e) ==
    /\ e.proposed_label = "NO_CONDITION"
    /\ e.mine_match # "NO_MATCH"
    /\ no_flag(e) /\ e.confidence >= MIN_CONF
    /\ has_quote(e)
passes_no_gate(e) ==
    /\ e.proposed_label = "NO_CONDITION"
    /\ e.mine_match # "NO_MATCH"
    /\ no_flag(e) /\ e.confidence >= MIN_CONF

\* faulty variant: an IRRELEVANT label is passed through
final_verdict_passthrough(e) ==
    IF passes_yes_gate(e) THEN "YES_CONDITION"
    ELSE IF passes_no_gate(e) THEN "NO_CONDITION"
    ELSE IF e.proposed_label = "IRRELEVANT" THEN "IRRELEVANT"
    ELSE "AMBIGUOUS"
final_verdict(e) ==
    IF passes_yes_gate(e) THEN "YES_CONDITION"
    ELSE IF passes_no_gate(e) THEN "NO_CONDITION"
    ELSE "AMBIGUOUS"

\* -------------------------------------------------------------- ladder.py
\* A market question is text; the regular expressions of the code are matched
\* on it character by character.  A date is the ordinal of its day.
Min(S) == CHOOSE m \in S : \A n \in S : m <= n

Digits == "0123456789"
\* the value of each decimal digit
DigitMap ==
    [c \in {SubSeq(Digits, i, i) : i \in 1..10} |->
        (CHOOSE k \in 1..10 : SubSeq(Digits, k, k) = c) - 1]

\* the character classes \s, \d and \w
SpaceChars == {" ", "\t", "\n", "\r"}
DigitChars == DOMAIN DigitMap
WordChars ==
    DigitChars \cup DOMAIN LowerMap \cup {LowerMap[c] : c \in DOMAIN LowerMap} \cup {"_"}

\* the character at index i, "" past either end
At(s, i) == IF i >= 1 /\ i <= Len(s) THEN SubSeq(s, i, i) ELSE ""

\* the index after the longest run, starting at i, of characters of class C
SpanEnd(s, i, C) ==
    LET stops == {k \in i..Len(s) : At(s, k) \notin C}
    IN IF i > Len(s) THEN i
       ELSE IF stops = {} THEN Len(s) + 1 ELSE Min(stops)

AllDigits(s) == \A k \in 1..Len(s) : At(s, k) \in DigitChars

RECURSIVE Num(_)
\* int() of a string of digits
Num(s) ==
    IF Len(s) = 0 THEN 0
    ELSE 10 * Num(SubSeq(s, 1, Len(s) - 1)) + DigitMap[At(s, Len(s))]

\* the literal kw stands at index i, in any case (re.IGNORECASE)
StartsAt(s, i, kw) ==
    i + Len(kw) - 1 <= Len(s) /\ Lower(SubSeq(s, i, i + Len(kw) - 1)) = kw

\* r'by\s+(\d{4}-\d{2}-\d{2})' matched at index i: <<group 1>>, or <<>>
IsoAt(s, i) ==
    LET j == SpanEnd(s, i + 2, SpaceChars)
    IN IF /\ StartsAt(s, i, "by") /\ j > i + 2 /\ j + 9 <= Len(s)
          /\ AllDigits(SubSeq(s, j, j + 3)) /\ At(s, j + 4) = "-"
          /\ AllDigits(SubSeq(s, j + 5, j + 6)) /\ At(s, j + 7) = "-"
          /\ AllDigits(SubSeq(s, j + 8, j + 9))
       THEN <<SubSeq(s, j, j + 9)>>
       ELSE <<>>

\* kw r'\s+(\w+)\s+(\d{1,2}),?\s+(\d{4})' matched at index i: the three
\* groups, or <<>>.  The word and the day are whole runs: a shorter word or
\* day would have to be followed by a space or a comma.
MonthAt(s, i, kw) ==
    LET a == i + Len(kw)
        b == SpanEnd(s, a, SpaceChars)
        c == SpanEnd(s, b, WordChars)
        d == SpanEnd(s, c, SpaceChars)
        e == SpanEnd(s, d, DigitChars)
        f == IF At(s, e) = "," THEN e + 1 ELSE e
        g == SpanEnd(s, f, SpaceChars)
    IN IF /\ StartsAt(s, i, kw)
          /\ b > a /\ c > b /\ d > c /\ e > d /\ e - d <= 2 /\ g > f
          /\ g + 3 <= Len(s) /\ AllDigits(SubSeq(s, g, g + 3))
       THEN <<SubSeq(s, b, c - 1), SubSeq(s, d, e - 1), SubSeq(s, g, g + 3)>>
       ELSE <<>>

\* month_pattern = r'by\s+(\w+)\s+(\d{1,2}),?\s+(\d{4})'
ByMonthAt(s, i) == MonthAt(s, i, "by")
\* r'before\s+(\w+)\s+(\d{1,2}),?\s+(\d{4})'
BeforeMonthAt(s, i) == MonthAt(s, i, "before")

\* the groups of the named pattern matched at index i, or <<>>
MatchAt(pattern, s, i) ==
    CASE pattern = "iso" -> IsoAt(s, i)
      [] pattern = "by_month" -> ByMonthAt(s, i)
      [] pattern = "before_month" -> BeforeMonthAt(s, i)

\* the first entry of a sequence that is not <<>>, <<>> when there is none
FirstNonEmpty(results) ==
    LET hits == {k \in DOMAIN results : results[k] # <<>>}
    IN IF hits = {} THEN <<>> ELSE results[Min(hits)]

\* re.search: the groups of the leftmost match, <<>> when nothing matches
Search(s, pattern) ==
    FirstNonEmpty([i \in 1..Len(s) |-> MatchAt(pattern, s, i)])

\* the month names of strptime's %B and %b
FullMonths ==
    << "January", "February", "March", "April", "May", "June", "July",
       "August", "September", "October", "November", "December" >>
AbbrMonths ==
    << "Jan", "Feb", "Mar", "Apr", "May", "Jun", "Jul", "Aug", "Sep", "Oct",
       "Nov", "Dec" >>

\* the number of the month that names[..] spells as w, in any case; 0 if none
MonthNumber(names, w) ==
    LET hits == {n \in 1..12 : Lower(names[n]) = Lower(w)}
    IN IF hits = {} THEN 0 ELSE Min(hits)

IsLeap(y) == (y % 4 = 0 /\ y % 100 # 0) \/ y % 400 = 0

DaysInMonth(y, m) ==
    IF m = 2 THEN (IF IsLeap(y) THEN 29 ELSE 28)
    ELSE IF m \in {4, 6, 9, 11} THEN 30 ELSE 31

\* what strptime accepts as a calendar date
ValidDate(y, m, d) == y >= 1 /\ m \in 1..12 /\ d >= 1 /\ d <= DaysInMonth(y, m)

RECURSIVE DaysBeforeMonth(_, _)
DaysBeforeMonth(y, m) ==
    IF m = 1 THEN 0 ELSE DaysBeforeMonth(y, m - 1) + DaysInMonth(y, m - 1)

\* datetime.toordinal(): days since 0001-01-01, that day being 1
ToOrdinal(y, m, d) ==
    LET p == y - 1
    IN 365 * p + (p \div 4) - (p \div 100) + (p \div 400) + DaysBeforeMonth(y, m) + d

\* datetime.strptime(g, '%Y-%m-%d'): <<ordinal>>, or <<>> for ValueError
StrptimeIso(g) ==
    LET y == Num(SubSeq(g, 1, 4))
        m == Num(SubSeq(g, 6, 7))
        d == Num(SubSeq(g, 9, 10))
    IN IF ValidDate(y, m, d) THEN <<ToOrdinal(y, m, d)>> ELSE <<>>

\* datetime.strptime(f"{g[1]} {g[2]}, {g[3]}", '%B %d, %Y') when names are the
\* full month names, '%b %d, %Y' when they are the abbreviations: <<ordinal>>,
\* or <<>> for ValueError
StrptimeMonth(names, g) ==
    LET m == MonthNumber(names, g[1])
        d == Num(g[2])
        y == Num(g[3])
    IN IF m # 0 /\ ValidDate(y, m, d) THEN <<ToOrdinal(y, m, d)>> ELSE <<>>

\* An OverflowError leaving the function.  It is written as the ordinal 0,
\* which no datetime has (datetime.min is day 1).
OverflowError == <<0>>

\* base_date - timedelta(days=1): below datetime.min the subtraction raises
\* OverflowError, which the surrounding `except ValueError` does not catch
MinusOneDay(base_date) ==
    IF base_date - 1 >= ToOrdinal(1, 1, 1) THEN <<base_date - 1>> ELSE OverflowError

\* `if iso_match:` with its try block: the parsed date, <<>> to go on
TryIso(iso_match) ==
    IF iso_match # <<>> THEN StrptimeIso(iso_match[1]) ELSE <<>>

\* one strptime attempt on the groups of a month-name match
TryMonth(names, match) ==
    IF match # <<>> THEN StrptimeMonth(names, match) ELSE <<>>

\* return base_date - timedelta(days=1), when base_date was parsed
TryBefore(base_date) ==
    IF base_date # <<>> THEN MinusOneDay(base_date[1]) ELSE <<>>

\* extract_deadline_from_question: <<>> for None, <<ordinal>> for a datetime,
\* OverflowError when the call raises.  The attempts stand in program order
\* and the first that yields a value returns: the ISO date, the month name
\* after 'by' as %B and then as %b, the month name after 'before' as %B.
extract_deadline_from_question(question) ==
    FirstNonEmpty(<<
        TryIso(Search(question, "iso")),
        TryMonth(FullMonths, Search(question, "by_month")),
        TryMonth(AbbrMonths, Search(question, "by_month")),
        TryBefore(TryMonth(FullMonths, Search(question, "before_month"))) >>)

\* the end (exclusive) of a match of r'\s*(by|before)\s+[^?]+' that starts at
\* index i, 0 if none starts there.  After the keyword come a space and at
\* least one more character other than '?'; the match runs to the next '?'.
ClauseAt(s, i) ==
    LET p == SpanEnd(s, i, SpaceChars)
        k == IF StartsAt(s, p, "by") THEN p + 2
             ELSE IF StartsAt(s, p, "before") THEN p + 6
             ELSE 0
        marks == {n \in k..Len(s) : At(s, n) = "?"}
        q == IF marks = {} THEN Len(s) + 1 ELSE Min(marks)
    IN IF k # 0 /\ At(s, k) \in SpaceChars /\ q >= k + 2 THEN q ELSE 0

RECURSIVE SubClauses(_)
\* re.sub(r'\s*(by|before)\s+[^?]+', '', s, flags=re.IGNORECASE): every match,
\* leftmost first, is removed
SubClauses(s) ==
    LET starts == {i \in 1..Len(s) : ClauseAt(s, i) # 0}
        i == Min(starts)
    IN IF starts = {} THEN s
       ELSE SubSeq(s, 1, i - 1) \o SubClauses(SubSeq(s, ClauseAt(s, i), Len(s)))

\* base_question of group_markets_by_base_question
base_question(question) == Strip(SubClauses(question))

\* ------------------------------------------------------ market questions
\* Questions are written from their parts, as the tests write them: a base
\* question and deadline clauses, each a keyword ("by", "BY", "before"), the
\* form of the date ("iso" YYYY-MM-DD, "long" Month D, YYYY, "abbr" Mon D,
\* YYYY) and the date's numbers.
Clause(kw, fmt, y, m, d) == [kw |-> kw, fmt |-> fmt, y |-> y, m |-> m, d |-> d]

DigitStr(n) == SubSeq(Digits, n + 1, n + 1)

RECURSIVE Pad(_, _)
\* n in decimal, zero-padded to width w
Pad(n, w) == IF w = 0 THEN "" ELSE Pad(n \div 10, w - 1) \o DigitStr(n % 10)

\* str(n)
Str(n) == IF n < 10 THEN DigitStr(n) ELSE Pad(n, 2)

DateText(c) ==
    CASE c.fmt = "iso" -> Pad(c.y, 4) \o "-" \o Pad(c.m, 2) \o "-" \o Pad(c.d, 2)
      [] c.fmt = "long" -> FullMonths[c.m] \o " " \o Str(c.d) \o ", " \o Pad(c.y, 4)
      [] c.fmt = "abbr" -> AbbrMonths[c.m] \o " " \o Str(c.d) \o ", " \o Pad(c.y, 4)

ClauseText(c) == c.kw \o " " \o DateText(c)

RECURSIVE JoinClauses(_)
JoinClauses(clauses) ==
    IF Len(clauses) = 1 THEN ClauseText(clauses[1])
    ELSE ClauseText(clauses[1]) \o " or " \o JoinClauses(Tail(clauses))

\* "<base>?", "<base> <clause>?", "<base> <clause> or <clause>?", ...
Render(base, clauses) ==
    IF Len(clauses) = 0 THEN base \o "?"
    ELSE base \o " " \o JoinClauses(clauses) \o "?"

Q(kw, fmt, y, m, d) ==
    IF kw = "none" THEN Render("Will X happen", <<>>)
    ELSE Render("Will X happen", <<Clause(kw, fmt, y, m, d)>>)

\* "... by 2024-06-30?", "... by December 31, 2024?", "... before January 1,
\* 2025?" (the same day as the one before), "... by 2025-06-30?", a question
\* without a deadline clause, and one naming a day that does not exist.
QuestionVocab ==
    { Q("by", "iso", 2024, 6, 30),
      Q("by", "long", 2024, 12, 31),
      Q("before", "long", 2025, 1, 1),
      Q("by", "iso", 2025, 6, 30),
      Q("none", "none", 0, 0, 0),
      Q("by", "iso", 2024, 2, 30) }

\* Deadline clauses for the parser: each family with a date that exists and
\* one that does not, an upper-case keyword, the year boundary, the leap day,
\* an abbreviated month after "before", and the first day datetime can hold.
ClauseVocab ==
    { Clause("by", "iso", 2024, 12, 31),
      Clause("BY", "iso", 2025, 6, 30),
      Clause("by", "iso", 2024, 2, 30),
      Clause("by", "iso", 2024, 13, 1),
      Clause("by", "long", 2024, 12, 31),
      Clause("by", "long", 2023, 2, 29),
      Clause("by", "abbr", 2025, 6, 5),
      Clause("before", "long", 2025, 1, 1),
      Clause("before", "long", 2024, 3, 1),
      Clause("before", "long", 2024, 4, 31),
      Clause("before", "abbr", 2025, 1, 1),
      Clause("before", "long", 1, 1, 1) }

\* the clause lists of the questions handed to the parser
AskedVocab == BoundedSeq(ClauseVocab, MaxClauses)

\* The questions of a venue snapshot, as base question and clauses: a ladder
\* of three rungs on one event, two different events whose names contain "by",
\* and a deadline on the first day datetime can hold.
SnapshotWritten ==
    { <<"Will X happen", <<Clause("by", "iso", 2024, 6, 30)>> >>,
      <<"Will X happen", <<Clause("before", "long", 2025, 1, 1)>> >>,
      <<"Will X happen", <<>> >>,
      <<"Will Derby win", <<Clause("by", "iso", 2024, 6, 30)>> >>,
      <<"Will Derby lose", <<Clause("by", "iso", 2025, 6, 30)>> >>,
      <<"Will X happen", <<Clause("before", "long", 1, 1, 1)>> >> }

\* a market as the venue returns it; 'question' may be absent
SnapshotVocab ==
    { [question |-> Render(w[1], w[2]), probability |-> 50] : w \in SnapshotWritten }
    \cup { [question |-> Render(w[1], w[2]), probability |-> 56] :
             w \in { v \in SnapshotWritten :
                       v[2] = <<Clause("by", "iso", 2024, 6, 30)>> } }
    \cup { [probability |-> 50] }

\* every question text of the model, and '' for a market without a question
AllQuestions ==
    QuestionVocab \cup {Render("Will X happen", a) : a \in AskedVocab}
    \cup {Render(w[1], w[2]) : w \in SnapshotWritten} \cup {""}

\* extract_deadline_from_question and base_question, tabulated once
Deadlines == [q \in AllQuestions |-> extract_deadline_from_question(q)]
BaseQuestions == [q \in AllQuestions |-> base_question(q)]

\* market.get('question', '')
Question(m) == Get(m, "question", "")

\* market.get('probability', 0)
Probability(m) == Get(m, "probability", 0)

\* `if deadline: markets_with_deadlines.append((market, deadline))`
WithDeadline(market, dl) ==
    IF Len(dl) > 0 THEN << <<market, dl[1]>> >> ELSE <<>>

\* markets_with_deadlines: the (market, deadline) pairs of the markets whose
\* deadline is not None, in input order
RECURSIVE markets_with_deadlines(_)
markets_with_deadlines(ms) ==
    IF ms = <<>> THEN <<>>
    ELSE WithDeadline(Head(ms), Deadlines[Question(Head(ms))])
         \o markets_with_deadlines(Tail(ms))

\* one step of the stable sort: item goes after every entry whose key is not
\* greater than its own
RECURSIVE InsertByDeadline(_, _)
InsertByDeadline(sorted, item) ==
    IF sorted = <<>> THEN <<item>>
    ELSE IF Head(sorted)[2] <= item[2]
         THEN <<Head(sorted)>> \o InsertByDeadline(Tail(sorted), item)
         ELSE <<item>> \o sorted

RECURSIVE SortByDeadline(_)
\* list.sort(key=lambda x: x[1]), which is stable
SortByDeadline(s) ==
    IF s = <<>> THEN <<>>
    ELSE InsertByDeadline(SortByDeadline(SubSeq(s, 1, Len(s) - 1)), s[Len(s)])

\* faulty variant: adjacent rungs only
LoopPairsAdjacent(n) == [i \in 1..(n - 1) |-> <<i, i + 1>>]
RECURSIVE LoopPairsFrom(_, _)
LoopPairsFrom(i, n) ==
    IF i >= n THEN <<>>
    ELSE [k \in 1..(n - i) |-> <<i, i + k>>] \o LoopPairsFrom(i + 1, n)
\* for i in range(n): for j in range(i + 1, n), in loop order
LoopPairs(n) == LoopPairsFrom(1, n)

\* faulty variant: a difference equal to the tolerance counts
ExceedsOrEqual(earlier_prob, later_prob, tol) == earlier_prob >= later_prob + tol
\* earlier_prob > later_prob + self.min_violation_size
Exceeds(earlier_prob, later_prob, tol) == earlier_prob > later_prob + tol

\* LadderViolation(earlier_market, later_market, earlier_prob, later_prob)
LadderViolation(earlier_market, later_market, earlier_prob, later_prob) ==
    [ earlier_market |-> earlier_market,
      later_market |-> later_market,
      earlier_prob |-> earlier_prob,
      later_prob |-> later_prob,
      violation_size |-> earlier_prob - later_prob ]

\* the double loop over the sorted pairs mwd: a LadderViolation for every
\* pair i < j whose earlier probability exceeds the later one by more than tol
CompareAll(mwd, tol) ==
    LET IsViolation(p) ==
            Exceeds(Probability(mwd[p[1]][1]), Probability(mwd[p[2]][1]), tol)
        hits == SelectSeq(LoopPairs(Len(mwd)), IsViolation)
    IN [k \in 1..Len(hits) |->
          LadderViolation(mwd[hits[k][1]][1], mwd[hits[k][2]][1],
                          Probability(mwd[hits[k][1]][1]),
                          Probability(mwd[hits[k][2]][1]))]

\* check_group_monotonicity: collect, sort by deadline, compare
check_group_monotonicity(ms, tol) ==
    CompareAll(SortByDeadline(markets_with_deadlines(ms)), tol)

\* check_group_monotonicity raises: the deadline of one of the markets does
check_group_raises(ms) ==
    \E i \in DOMAIN ms : Deadlines[Question(ms[i])] = OverflowError

\* One turn of the loop of group_markets_by_base_question.  The dict `groups`
\* is the sequence of its items, in insertion order.
AddToGroups(groups, market) ==
    LET b == BaseQuestions[Question(market)]
    IN IF \E k \in DOMAIN groups : groups[k].base_question = b
       THEN [k \in DOMAIN groups |->
               IF groups[k].base_question = b
               THEN [groups[k] EXCEPT !.markets = Append(@, market)]
               ELSE groups[k]]
       ELSE Append(groups, [base_question |-> b, markets |-> <<market>>])

RECURSIVE GroupAll(_)
\* groups after `for market in markets`
GroupAll(ms) ==
    IF ms = <<>> THEN <<>>
    ELSE AddToGroups(GroupAll(SubSeq(ms, 1, Len(ms) - 1)), ms[Len(ms)])

\* len(v) > 1
KeepsGroup(v) == Len(v) > 1

\* {k: v for k, v in groups.items() if len(v) > 1}
group_markets_by_base_question(ms) ==
    LET Kept(g) == KeepsGroup(g.markets)
    IN SelectSeq(GroupAll(ms), Kept)

RECURSIVE ExtendAll(_, _)
\* all_violations after the loop over groups.items()
ExtendAll(groups, tol) ==
    IF groups = <<>> THEN <<>>
    ELSE check_group_monotonicity(Head(groups).markets, tol)
         \o ExtendAll(Tail(groups), tol)

\* check_all_violations raises: check_group_monotonicity does for a group
check_all_raises(ms) ==
    LET groups == group_markets_by_base_question(ms)
    IN \E k \in DOMAIN groups : check_group_raises(groups[k].markets)

\* faulty variant: the list of the run before is kept and extended
check_all_violations_kept(ms, tol) ==
    all_violations \o ExtendAll(group_markets_by_base_question(ms), tol)
\* check_all_violations: all_violations starts empty in every call
check_all_violations(ms, tol) ==
    ExtendAll(group_markets_by_base_question(ms), tol)

\* ------------------------------------------------------------ prefilter.py
\* a str as the sequence of its characters
Chars(s) == [i \in 1..Len(s) |-> SubSeq(s, i, i)]

\* str.lower() on a sequence of characters; a Chinese character has no case
LowerText(t) == [i \in DOMAIN t |-> LowerChar(t[i])]

\* Python's KeyError
KeyError == [type |-> "KeyError"]

entity_categories == <<"company_aliases", "mine_aliases", "geo_aliases">>
action_categories == <<"yes_zh", "yes_en", "no_zh", "traditional_zh">>

\* phrasebook[category] raises KeyError
lookup_raises(phrasebook, category) == category \notin DOMAIN phrasebook

\* faulty variant: the category is looked up without the `in` test
visits_unguarded(phrasebook, category) == TRUE
\* `if category in phrasebook`: the lookup and the inner loop run
visits(phrasebook, category) == category \in DOMAIN phrasebook

\* the inner loop: some entry, lower-cased, is a substring of text_lower
term_in_text(text_lower, terms) ==
    \E k \in DOMAIN terms : Contains(text_lower, LowerText(terms[k]))

RECURSIVE category_loop_raises(_, _, _)
\* `for category in [...]` raises: a lookup does, before the loop breaks at
\* the first category with a match
category_loop_raises(text_lower, phrasebook, categories) ==
    IF categories = <<>> THEN FALSE
    ELSE IF ~visits(phrasebook, Head(categories))
    THEN category_loop_raises(text_lower, phrasebook, Tail(categories))
    ELSE IF lookup_raises(phrasebook, Head(categories)) THEN TRUE
    ELSE IF term_in_text(text_lower, phrasebook[Head(categories)]) THEN FALSE
    ELSE category_loop_raises(text_lower, phrasebook, Tail(categories))

RECURSIVE category_loop(_, _, _)
\* the flag `for category in [...]` leaves when no lookup raises
category_loop(text_lower, phrasebook, categories) ==
    IF categories = <<>> THEN FALSE
    ELSE IF /\ visits(phrasebook, Head(categories))
            /\ term_in_text(text_lower, phrasebook[Head(categories)])
    THEN TRUE
    ELSE category_loop(text_lower, phrasebook, Tail(categories))

\* passes_boolean_filter raises: one of its two loops does
boolean_filter_raises(text, phrasebook) ==
    \/ category_loop_raises(LowerText(text), phrasebook, entity_categories)
    \/ category_loop_raises(LowerText(text), phrasebook, action_categories)

\* faulty variant: either half is enough
passes_boolean_filter_either(text, phrasebook) ==
    LET text_lower == LowerText(text)
        entity_match == category_loop(text_lower, phrasebook, entity_categories)
        action_match == category_loop(text_lower, phrasebook, action_categories)
    IN entity_match \/ action_match
\* passes_boolean_filter: return entity_match and action_match
passes_boolean_filter(text, phrasebook) ==
    LET text_lower == LowerText(text)
        entity_match == category_loop(text_lower, phrasebook, entity_categories)
        action_match == category_loop(text_lower, phrasebook, action_categories)
    IN entity_match /\ action_match

\* Chinese characters of the prefilter, one token each.  Characters that share
\* a pinyin syllable carry a gloss: xia4 is the xia of Jianxiawo and
\* xia4_summer the look-alike of the typo list, jian4_build and jian4_brook
\* the two look-alikes of jian3.
latin_variants == {Chars("jianxiawo"), Chars("jianxia wo"), Chars("jian xia wo")}
mining_terms ==
    { Chars("mining"), <<"cai3", "kuang4">>, <<"kuang4">>,
      Chars("lithium"), <<"li3">>, Chars("mine") }
typo_variants ==
    { <<"jian4_build", "xia4_summer", "wo4">>,
      <<"jian4_build", "xia4_summer", "wo1">>,
      <<"jian4_brook", "xia4", "wo1">> }

\* fuzzy_mine_match: the typo variants are looked for in the text as given,
\* everything else in its lower-case form
fuzzy_mine_match(text) ==
    LET text_lower == LowerText(text)
        has_mining == \E term \in mining_terms : Contains(text_lower, term)
    IN \/ \E variant \in latin_variants : Contains(text_lower, variant)
       \/ /\ has_mining
          /\ \E variant \in typo_variants : Contains(text, variant)

\* the title enhanced_relevance_check reads: item.get('title', '')
Title(item) == Get(item, "title", <<>>)

\* enhanced_relevance_check, when the boolean filter does not raise
enhanced_relevance_check(item, phrasebook) ==
    IF passes_boolean_filter(Title(item), phrasebook) THEN TRUE
    ELSE fuzzy_mine_match(Title(item))

\* ------------------------------------------------------- pipeline inputs
\* Terms an extraction may report.  English: an affirmative phrase, a negative
\* phrase naming exploration, both in mixed case, and a phrase naming
\* exploration that is on no list.
EnVocab == {"Resume Production", "Exploration Permit", "Exploration Drilling"}
\* Chinese: yan2 xu4 (affirmative), kan1 tan4 bao4 gao4 (exploration report, on
\* no list), zan4 ting2 sheng1 chan3 (negative).
ZhVocab == { <<"yan2","xu4">>,
             <<"kan1","tan4","bao4","gao4">>,
             <<"zan4","ting2","sheng1","chan3">> }
QuoteVocab == {"", "  ", " yan2xu4 "}
GateConfidence == {74, 75, 100}

\* Evidence entries as the extraction collaborator's JSON schema shapes them:
\* three strings, of any content.
SchemaEvidence ==
    [exact_zh_quote : QuoteVocab, en_literal : {"renewal"}, where_in_doc : {"s1"}]

\* Inputs that obey the JSON schema of the extraction collaborator.
SchemaInputs ==
    [ doc_url : {"u"},
      mine_match : MineMatch,
      key_terms_found_zh : BoundedSeq(ZhVocab, MaxTerms),
      key_terms_found_en : BoundedSeq(EnVocab, MaxTerms),
      proposed_label : AllowedLabel,
      confidence : GateConfidence,
      evidence : BoundedSeq(SchemaEvidence, MaxEvidence) ]

\* Evidence inputs with any of the three fields omitted, empty, blank or filled.
RawEvidence == UNION {[D -> QuoteVocab] : D \in SUBSET EvidenceFields}

EdgeEvidence == { [exact_zh_quote |-> " yan2xu4 ", en_literal |-> "renewal", where_in_doc |-> "s1"],
                  [exact_zh_quote |-> " yan2xu4 ", en_literal |-> "", where_in_doc |-> ""],
                  [exact_zh_quote |-> " yan2xu4 "] }
EdgeConfidence == {-1, 0, 50, 100, 101}

Opt(f, S) == {<<>>} \cup {f :> v : v \in S}

\* Inputs of direct constructor calls: a field omitted, a value outside its
\* enumeration or range, incomplete evidence entries.  The term lists take
\* their defaults.
EdgeInputs ==
    { u @@ c @@ e @@ ("mine_match" :> m) @@ ("proposed_label" :> l) :
        u \in Opt("doc_url", {"u"}),
        c \in Opt("confidence", EdgeConfidence),
        e \in Opt("evidence", BoundedSeq(EdgeEvidence, MaxEvidence)),
        m \in MineMatch \cup {"STRONG"},
        l \in AllowedLabel \cup {"MAYBE"} }

\* ---------------------------------------------------------- ladder inputs
ProbVocab == {50, 53, 56}
ToleranceVocab == {3, 5}
MarketIds == <<"m1", "m2", "m3", "m4", "m5", "m6">>

\* a market as the venue returns it; 'probability' may be absent
MarketVocab ==
    [question : QuestionVocab, probability : ProbVocab] \cup [question : {Q("by", "iso", 2024, 6, 30)}]

\* market lists of up to MaxMarkets markets with distinct ids
MarketLists ==
    { [i \in 1..Len(s) |-> ("id" :> MarketIds[i]) @@ s[i]] :
        s \in BoundedSeq(MarketVocab, MaxMarkets) }

\* venue snapshots of up to MaxSnapshot markets with distinct ids
SnapshotLists ==
    { [i \in 1..Len(s) |-> ("id" :> MarketIds[i]) @@ s[i]] :
        s \in BoundedSeq(SnapshotVocab, MaxSnapshot) }

\* ------------------------------------------------------- prefilter inputs
PhrasebookCategories ==
    { "company_aliases", "mine_aliases", "geo_aliases",
      "yes_zh", "yes_en", "no_zh", "no_en", "traditional_zh" }

\* the entries of a category that has entries: an English company name, the
\* mine jian3 xia4 wo1, the city yi2 chun1, the verbs xu4 qi1 (renew) and
\* ting2 chan3 (stop production), xu4 qi1 in traditional script
FilledCategory ==
    [ company_aliases |-> <<Chars("CATL")>>,
      mine_aliases |-> << <<"jian3", "xia4", "wo1">> >>,
      geo_aliases |-> << <<"yi2", "chun1">> >>,
      yes_zh |-> << <<"xu4", "qi1">> >>,
      yes_en |-> <<Chars("resume production"), Chars("License Renewed")>>,
      no_zh |-> << <<"ting2", "chan3">> >>,
      no_en |-> <<Chars("suspend production")>>,
      traditional_zh |-> << <<"xu4_trad", "qi1">> >> ]

\* phrasebooks with every category missing, empty or filled
Phrasebooks ==
    { [c \in {k \in PhrasebookCategories : o[k] # "missing"} |->
          IF o[c] = "empty" THEN <<>> ELSE FilledCategory[c]] :
        o \in [PhrasebookCategories -> {"missing", "empty", "filled"}] }

TypoTitle == <<"jian4_build", "xia4_summer", "wo1">>

\* titles: alias and verb in either case, alias alone, alias with a Latin
\* spelling of the mine, alias with an English negative verb, verb alone,
\* Chinese alias with a Chinese verb (affirmative, negative, traditional), a
\* misspelt mine name with and without a mining word, the empty title
TitleVocab ==
    { Chars("CATL license renewed"),
      Chars("catl LICENSE RENEWED"),
      Chars("CATL quarterly results"),
      Chars("CATL Jianxiawo site visit"),
      Chars("catl to Suspend Production"),
      Chars("license renewed"),
      <<"yi2", "chun1", "xu4", "qi1">>,
      <<"jian3", "xia4", "wo1", "ting2", "chan3">>,
      <<"yi2", "chun1", "xu4_trad", "qi1">>,
      TypoTitle \o <<"li3", "kuang4">>,
      Chars("MINING ") \o TypoTitle,
      TypoTitle,
      <<>> }

\* items as the sources return them, and one without a title
FilterItems == {[title |-> t] : t \in TitleVocab} \cup {[url |-> "u"]}

\* -------------------------------------------------------------- monitor.py
\* the key of an item in the seen table
Identity(it) == <<it.source, it.id>>

\* store.has(it["source"], it["id"])
StoreHas(seen, it) == Identity(it) \in seen

\* store.add(SeenItem(it["source"], it["id"], ...)): INSERT OR IGNORE
StoreAdd(seen, it) == seen \cup {Identity(it)}

\* new_items = [i for i in items if not store.has(i["source"], i["id"])]
NewItems(items, seen) == SelectSeq(items, LAMBDA i : ~StoreHas(seen, i))

\* an exception of the extraction collaborator (transport, JSON decoding)
APIError == [type |-> "APIError"]

\* what one loop body did: whether extract_from_text was called, the
\* Extraction and the verdict it got to, the steps that raised, whether the
\* comment was posted, the order it tried to place
Entry(it, called, extraction, v, failures, commented, order) ==
    [ item |-> it, extraction_called |-> called, extraction |-> extraction,
      verdict |-> v, failures |-> failures, commented |-> commented,
      order |-> order ]

\* faulty variant: the trading block runs without `if not COMMENT_ONLY:`
LlmBody_trades_always(it, comment_only, reply, comment_ok, order_ok) ==
    IF reply = APIError
    THEN Entry(it, TRUE, None, Unset, {"extraction"}, FALSE, "none")
    ELSE IF ~ExtractionValid(reply)
    THEN Entry(it, TRUE, None, Unset, {"validation"}, FALSE, "none")
    ELSE LET extraction == Construct(reply)
             v == final_verdict(extraction)
             should_comment ==
                 \/ v \in {"YES_CONDITION", "NO_CONDITION"}
                 \/ extraction.mine_match # "NO_MATCH"
             order ==
                 IF passes_yes_gate(extraction) THEN "YES"
                 ELSE IF v = "NO_CONDITION" /\ extraction.confidence >= 80
                 THEN "NO"
                 ELSE "none"
             failures ==
                 (IF should_comment /\ ~comment_ok THEN {"comment"} ELSE {})
                 \cup (IF order # "none" /\ ~order_ok THEN {"trade"} ELSE {})
         IN Entry(it, TRUE, extraction, v, failures,
                  should_comment /\ comment_ok, order)

\* the `if USE_LLM:` branch of the loop body, for the reply of the
\* extraction collaborator and the outcomes of post_comment and place_limit_*
LlmBody(it, comment_only, reply, comment_ok, order_ok) ==
    IF reply = APIError
    THEN Entry(it, TRUE, None, Unset, {"extraction"}, FALSE, "none")
    ELSE IF ~ExtractionValid(reply)
    THEN Entry(it, TRUE, None, Unset, {"validation"}, FALSE, "none")
    ELSE LET extraction == Construct(reply)
             v == final_verdict(extraction)
             should_comment ==
                 \/ v \in {"YES_CONDITION", "NO_CONDITION"}
                 \/ extraction.mine_match # "NO_MATCH"
             order ==
                 IF comment_only THEN "none"
                 ELSE IF passes_yes_gate(extraction) THEN "YES"
                 ELSE IF v = "NO_CONDITION" /\ extraction.confidence >= 80
                 THEN "NO"
                 ELSE "none"
             failures ==
                 (IF should_comment /\ ~comment_ok THEN {"comment"} ELSE {})
                 \cup (IF order # "none" /\ ~order_ok THEN {"trade"} ELSE {})
         IN Entry(it, TRUE, extraction, v, failures,
                  should_comment /\ comment_ok, order)

\* the `else:` branch: the label classify_for_market gives the translation
FallbackBody(it, label, comment_ok) ==
    LET should_comment ==
            \/ label \in {"YES_CONDITION", "NO_CONDITION"}
            \/ it.source # "jiangxi"
    IN Entry(it, FALSE, None, label,
             IF should_comment /\ ~comment_ok THEN {"comment"} ELSE {},
             should_comment /\ comment_ok, "none")

\* the loop body reached `except Exception` of the item's try
Raised(entry) == entry.failures \cap {"extraction", "validation"} # {}

\* faulty variant: the item is marked inside the try
mark_seen_in_try(seen, it, raised) ==
    IF raised THEN seen ELSE StoreAdd(seen, it)
\* `# Mark as seen regardless to avoid spam`: store.add after the try
mark_seen(seen, it, raised) == StoreAdd(seen, it)

\* ---------------------------------------------------------- monitor inputs
\* the phrasebook monitor.py falls back to, and a loaded phrasebook.yml
FallbackPhrasebook ==
    [yes_zh |-> <<>>, yes_en |-> <<>>, no_zh |-> <<>>, mine_aliases |-> <<>>]
MonitorPhrasebooks == {FallbackPhrasebook, FilledCategory}

\* fetched items: an announcement with an alias and an affirmative verb, one
\* with the alias alone, a notice with a misspelt mine name and a mining word
ItemVocab ==
    { [source |-> "cninfo", id |-> "a", url |-> "u1",
       title |-> Chars("CATL license renewed")],
      [source |-> "cninfo", id |-> "b", url |-> "u2",
       title |-> Chars("CATL quarterly results")],
      [source |-> "jiangxi", id |-> "a", url |-> "u3",
       title |-> TypoTitle \o <<"li3", "kuang4">>] }

\* the items of one cycle; the same item may be fetched twice
ItemLists == BoundedSeq(ItemVocab, MaxItems)

Quote == [exact_zh_quote |-> " yan2xu4 ", en_literal |-> "renewal", where_in_doc |-> "s1"]

\* a reply of the extraction collaborator
Reply(match, zh, label, confidence, evidence) ==
    [ doc_url |-> "u", mine_match |-> match, key_terms_found_zh |-> zh,
      key_terms_found_en |-> <<>>, proposed_label |-> label,
      confidence |-> confidence, evidence |-> evidence ]

\* replies: a renewal of the mine's licence, a halt of production at 0.80 and
\* at 0.79, nothing about the mine, a confidence out of range, no reply
ReplyVocab ==
    { Reply("JIANXIAWO_MATCH", << <<"yan2", "xu4">> >>, "YES_CONDITION", 80, <<Quote>>),
      Reply("JIANXIAWO_MATCH", << <<"zan4", "ting2", "sheng1", "chan3">> >>, "NO_CONDITION", 80, <<>>),
      Reply("POSSIBLE_MATCH", << <<"zan4", "ting2", "sheng1", "chan3">> >>, "NO_CONDITION", 79, <<>>),
      Reply("NO_MATCH", <<>>, "AMBIGUOUS", 50, <<>>),
      Reply("JIANXIAWO_MATCH", << <<"yan2", "xu4">> >>, "YES_CONDITION", 101, <<Quote>>),
      APIError }

\* ------------------------------------------------- oreaclebot/client.py
\* str.upper() on one character
UpperChar(c) ==
    IF \E u \in DOMAIN LowerMap : LowerMap[u] = c
    THEN CHOOSE u \in DOMAIN LowerMap : LowerMap[u] = c
    ELSE c

RECURSIVE Upper(_)
\* str.upper()
Upper(s) ==
    IF Len(s) = 0 THEN ""
    ELSE UpperChar(SubSeq(s, 1, 1)) \o Upper(SubSeq(s, 2, Len(s)))

\* the exceptions of the client and of the requests library
ValueError == [type |-> "ValueError"]
RuntimeError == [type |-> "RuntimeError"]
TypeError == [type |-> "TypeError"]
ConnectionError == [type |-> "ConnectionError"]
HTTPError(status) == [type |-> "HTTPError", status |-> status]
JSONDecodeError == [type |-> "JSONDecodeError"]

\* class Outcome(str, Enum)
Outcome == [YES |-> [value |-> "YES"], NO |-> [value |-> "NO"]]

\* LimitOrder(contractId, outcome, amount, limitProb); limitProb is in
\* hundredths, expiresMillisAfter keeps its default
LimitOrder(contractId, outcome, amount, limitProb) ==
    [ contractId |-> contractId, outcome |-> outcome, amount |-> amount,
      limitProb |-> limitProb, expiresMillisAfter |-> 6 * 60 * 60 * 1000 ]

\* faulty variant: only the amount is validated
validate_raises_amount(o) == o.amount <= 0
\* LimitOrder.validate raises ValueError
validate_raises(o) ==
    \/ o.amount <= 0
    \/ ~(0 <= o.limitProb /\ o.limitProb <= 100)

\* LimitOrder.payload after validate: asdict with the outcome's value
order_payload(o) == [o EXCEPT !.outcome = o.outcome.value]

\* Comment(contractId, markdown).payload()
comment_payload(c) == [contractId |-> c.contractId, markdown |-> c.markdown]

\* the arguments of one _make_request call
Request(method, path, json_data) ==
    [method |-> method, path |-> path, json_data |-> json_data]

\* response.json() of a response whose body parses
Json(r) == [json |-> r.body]

\* `response.status_code in (429, 500, 502, 503, 504)`
Retryable == {429, 500, 502, 503, 504}

\* an HTTP attempt ended in an exception of the transport
IsTransportError(r) == r = ConnectionError

\* response.raise_for_status() raises HTTPError
raise_for_status_raises(r) == r.status >= 400

\* response.json() raises
json_raises(r) == r.body = "<html>"

\* `except requests.exceptions.RequestException`: HTTPError and the
\* transport errors are RequestExceptions; the JSON error of response.json()
\* is one in the releases of the library that derive it from
\* InvalidJSONError and a plain ValueError in the others
IsRequestException(e, json_is_request_exception) ==
    \/ e.type \in {"ConnectionError", "HTTPError"}
    \/ e.type = "JSONDecodeError" /\ json_is_request_exception

\* faulty variant: the status of the response is not checked
Thrown_unchecked(r, a, m) ==
    IF IsTransportError(r) THEN r
    ELSE IF json_raises(r) /\ r.status < 400 THEN JSONDecodeError
    ELSE None
\* the exception one iteration of the loop raises inside its try for the
\* outcome r of its HTTP attempt, None when it raises nothing
Thrown(r, a, m) ==
    IF IsTransportError(r) THEN r
    ELSE IF r.status \in Retryable /\ a < m - 1 THEN None
    ELSE IF raise_for_status_raises(r) THEN HTTPError(r.status)
    ELSE IF json_raises(r) THEN JSONDecodeError
    ELSE None

\* the iteration reaches `continue` on a retryable status
Continues(r, a, m) ==
    ~IsTransportError(r) /\ r.status \in Retryable /\ a < m - 1

\* the except clause sleeps and lets the loop go on
Retries(e, a, m, json_is_request_exception) ==
    /\ IsRequestException(e, json_is_request_exception)
    /\ a # m - 1

\* ----------------------------------------------------------- client inputs
AmountVocab == {-1, 0, 1, 5}
LimitProbVocab == {-1, 0, 55, 100, 101}
MethodVocab == {"GET", "post", "PUT"}
PathVocab == {"/slug/s", "/markets"}
CommentVocab == {[contractId |-> "m1", markdown |-> "text"]}

\* the outcomes of one HTTP attempt: the transport fails, or the venue
\* answers with a status and a body
ResponseVocab ==
    {ConnectionError}
    \cup [status : {200}, body : {"{}", "<html>"}]
    \cup [status : {400, 404} \cup Retryable, body : {"<html>"}]

\* ------------------------------------------- oreaclebot/sheets_sink.py
\* A float of a row is an integer in hundredths.  The CSV file is the
\* sequence of its lines and a line the sequence of its cells (texts); the
\* quoting of the csv module is not modelled.
RECURSIVE IntRepr(_)
\* str() of a non-negative int
IntRepr(n) ==
    IF n < 10 THEN DigitStr(n) ELSE IntRepr(n \div 10) \o DigitStr(n % 10)

\* the decimals repr() writes for the hundredths f of a float
Decimals(f) ==
    IF f = 0 THEN "0"
    ELSE IF f % 10 = 0 THEN DigitStr(f \div 10)
    ELSE Pad(f, 2)

\* the digits of repr() for a non-negative float
Magnitude(a) == IntRepr(a \div 100) \o "." \o Decimals(a % 100)

\* str() of a float, as csv.DictWriter writes it
FloatRepr(h) == IF h < 0 THEN "-" \o Magnitude(-h) ELSE Magnitude(h)

\* a numeral without its sign
Unsigned(s) == IF At(s, 1) \in {"-", "+"} THEN SubSeq(s, 2, Len(s)) ELSE s

\* the index of the decimal point of an unsigned numeral, one past its end
\* when it has none
PointOf(body) ==
    Min({k \in 1..Len(body) : At(body, k) = "."} \cup {Len(body) + 1})

\* float(s) raises ValueError: s is not a decimal numeral
float_raises(s) ==
    \/ \E k \in 1..Len(Unsigned(s)) : At(Unsigned(s), k) \notin DigitChars \cup {"."}
    \/ Cardinality({k \in 1..Len(Unsigned(s)) : At(Unsigned(s), k) = "."}) > 1
    \/ \A k \in 1..Len(Unsigned(s)) : At(Unsigned(s), k) \notin DigitChars

\* the hundredths the decimals fr stand for
Hundredths(fr) ==
    IF Len(fr) = 0 THEN 0
    ELSE IF Len(fr) = 1 THEN 10 * Num(fr)
    ELSE Num(SubSeq(fr, 1, 2))

\* the value of an unsigned numeral with its decimal point at index p
ValueAt(body, p) ==
    100 * Num(SubSeq(body, 1, p - 1)) + Hundredths(SubSeq(body, p + 1, Len(body)))

\* float(s), for numerals of at most two decimals
ParseFloat(s) ==
    IF At(s, 1) = "-"
    THEN 0 - ValueAt(Unsigned(s), PointOf(Unsigned(s)))
    ELSE ValueAt(Unsigned(s), PointOf(Unsigned(s)))

\* the header row _initialize_csv writes
headers ==
    << "timestamp", "doc_url", "doc_title", "source",
       "prob_before", "prob_after", "prob_delta", "ladder_probs", "hazard_rate",
       "zh_quote", "en_literal", "proposed_label", "confidence",
       "mine_match", "authority", "key_terms_zh", "key_terms_en", "hazards",
       "passes_prefilter", "passes_yes_gate", "passes_no_gate", "final_verdict",
       "action_taken", "comment_posted", "trade_amount", "trade_outcome",
       "pnl_this_action", "pnl_cumulative", "execution_time_ms",
       "llm_tokens_used", "llm_cost_usd" >>

\* the keys of SpreadsheetRow.to_dict, in the order of the dict
to_dict_keys ==
    << "timestamp", "doc_url", "doc_title", "source",
       "prob_before", "prob_after", "prob_delta",
       "ladder_probs", "hazard_rate",
       "zh_quote", "en_literal", "proposed_label", "confidence",
       "mine_match", "authority",
       "key_terms_zh", "key_terms_en", "hazards",
       "passes_prefilter", "passes_yes_gate", "passes_no_gate",
       "final_verdict", "action_taken", "comment_posted",
       "trade_amount", "trade_outcome",
       "pnl_this_action", "pnl_cumulative",
       "execution_time_ms", "llm_tokens_used", "llm_cost_usd" >>

\* the types SpreadsheetRow.__init__ gives the attributes
FloatColumns ==
    { "prob_before", "prob_after", "prob_delta", "hazard_rate", "confidence",
      "pnl_this_action", "pnl_cumulative", "llm_cost_usd" }
ListColumns == {"ladder_probs", "key_terms_zh", "key_terms_en", "hazards"}
BoolColumns ==
    {"passes_prefilter", "passes_yes_gate", "passes_no_gate", "comment_posted"}
IntColumns == {"trade_amount", "execution_time_ms", "llm_tokens_used"}

\* SpreadsheetRow(): every attribute at its default; the timestamp is the
\* time of construction
SpreadsheetRow ==
    [ c \in Range(headers) |->
        CASE c \in FloatColumns -> 0
          [] c \in ListColumns -> <<>>
          [] c \in BoolColumns -> FALSE
          [] c \in IntColumns -> 0
          [] c = "action_taken" -> "NONE"
          [] c = "timestamp" -> "2024-06-30T12:00:00+00:00"
          [] OTHER -> "" ]

\* the items of a list attribute: a float, or an object json.dumps cannot
\* serialize
Float(h) == [type |-> "float", value |-> h]
Decimal == [type |-> "Decimal"]

\* json.dumps(v) raises TypeError
json_dumps_raises(v) == \E i \in DOMAIN v : v[i].type # "float"

RECURSIVE JoinFloats(_)
JoinFloats(v) ==
    IF Len(v) = 1 THEN FloatRepr(v[1].value)
    ELSE FloatRepr(v[1].value) \o ", " \o JoinFloats(Tail(v))

\* json.dumps(v) of a list of floats
json_dumps(v) == IF v = <<>> THEN "[]" ELSE "[" \o JoinFloats(v) \o "]"

\* the text csv.DictWriter writes for the value to_dict gives column c
Cell(c, v) ==
    CASE c \in FloatColumns -> FloatRepr(v)
      [] c \in ListColumns -> json_dumps(v)
      [] c \in BoolColumns -> (IF v THEN "True" ELSE "False")
      [] c \in IntColumns -> IntRepr(v)
      [] OTHER -> v

\* row.to_dict() raises
to_dict_raises(row) == \E c \in ListColumns : json_dumps_raises(row[c])

\* the line _append_to_csv writes: DictWriter(fieldnames=row_dict.keys())
CsvLine(row) ==
    [i \in DOMAIN to_dict_keys |-> Cell(to_dict_keys[i], row[to_dict_keys[i]])]

\* dict(zip(fieldnames, line)): a later cell replaces an earlier one of the
\* same name
ZipDict(fieldnames, line) ==
    [ name \in {fieldnames[i] : i \in DOMAIN fieldnames \cap DOMAIN line} |->
        line[CHOOSE i \in DOMAIN fieldnames \cap DOMAIN line :
                /\ fieldnames[i] = name
                /\ \A j \in DOMAIN fieldnames \cap DOMAIN line :
                       fieldnames[j] = name => j <= i] ]

\* list(csv.DictReader(f)): the first line names the fields
DictReader(lines) ==
    [k \in 1..(Len(lines) - 1) |-> ZipDict(lines[1], lines[k + 1])]

\* float(row.get('pnl_cumulative', 0.0)), 0.0 when float raises
PnlOf(row) ==
    IF "pnl_cumulative" \notin DOMAIN row THEN 0
    ELSE IF float_raises(row["pnl_cumulative"]) THEN 0
    ELSE ParseFloat(row["pnl_cumulative"])

\* faulty variant: the first row is read
CumulativeOfFirst(rows) == IF rows = <<>> THEN 0 ELSE PnlOf(rows[1])
\* `if not rows: return 0.0` and `rows[-1]`
CumulativeOf(rows) == IF rows = <<>> THEN 0 ELSE PnlOf(rows[Len(rows)])

\* the file at output_path: whether it exists, and its lines
File(exists, lines) == [exists |-> exists, lines |-> lines]

\* SpreadsheetSink.get_cumulative_pnl for the file at output_path
get_cumulative_pnl(file) ==
    IF ~file.exists THEN 0 ELSE CumulativeOf(DictReader(file.lines))

\* `except Exception` catches e
IsException(e) == e.type \notin {"KeyboardInterrupt", "SystemExit", "GeneratorExit"}

\* the exception _append_to_csv raises for the row, None when it writes
append_to_csv_thrown(row) == IF to_dict_raises(row) THEN TypeError ELSE None

\* the exception append_row lets through to its caller, None when it returns
append_row_thrown(e) == IF e # None /\ ~IsException(e) THEN e ELSE None

\* ------------------------------------------------------------- sink inputs
PnlVocab == {0, 1000, 2550, -375}

\* rows as the caller fills them in
RowVocab ==
    { [SpreadsheetRow EXCEPT !["pnl_cumulative"] = c, !["pnl_this_action"] = t,
                             !["ladder_probs"] = l] :
        c \in PnlVocab, t \in {0, 500}, l \in {<<>>, <<Float(50), Float(55)>>, <<Decimal>>} }

\* what an earlier run of the program left at output_path: nothing, or the
\* header and the rows it appended
EarlierRows == {<<>>} \cup {<<r>> : r \in {w \in RowVocab : ~to_dict_raises(w)}}

\* ------------------------------------- oreaclebot/ladder.py, the reporting
\* create_violation_comment(violation): the values the text is rendered from
create_violation_comment(v) ==
    << "Monotonicity Violation Detected",
       Question(v.earlier_market), v.earlier_prob,
       Question(v.later_market), v.later_prob, v.violation_size >>

\* Comment(**kwargs) raises TypeError: the dataclass of client.py has the
\* fields contractId and markdown
Comment_raises(kwargs) == DOMAIN kwargs # {"contractId", "markdown"}

\* `market_id = violation.earlier_market.get('id')` and `if market_id:`
HasMarketId(v) ==
    "id" \in DOMAIN v.earlier_market /\ Truthy(v.earlier_market.id)

\* Comment(contractId=market_id, content=comment_text)
CommentKwargs(v) ==
    [contractId |-> v.earlier_market.id, content |-> create_violation_comment(v)]

\* the call one pass of the loop makes to client.post_comment, <<>> when it
\* makes none: a dry run, no market id, or the Comment constructor raising
\* into `except Exception`
CallsOf(v, is_dry_run) ==
    IF is_dry_run \/ ~HasMarketId(v) THEN <<>>
    ELSE IF Comment_raises(CommentKwargs(v)) THEN <<>>
    ELSE <<CommentKwargs(v)>>

\* the n-th call of client.post_comment returns (it raises otherwise)
PostOk(mode, n) ==
    CASE mode = "ok" -> TRUE
      [] mode = "fails" -> FALSE
      [] mode = "first_fails" -> n # 1

\* the state of the loop after a pass that made the calls c
AfterPass(acc, c, mode) ==
    [ calls |-> acc.calls \o c,
      comments_posted |->
          IF c # <<>> /\ PostOk(mode, Len(acc.calls) + 1)
          THEN acc.comments_posted + 1
          ELSE acc.comments_posted ]

RECURSIVE PostLoop(_, _, _, _)
\* `for violation in violations:`
PostLoop(vs, is_dry_run, mode, acc) ==
    IF vs = <<>> THEN acc
    ELSE PostLoop(Tail(vs), is_dry_run, mode,
                  AfterPass(acc, CallsOf(Head(vs), is_dry_run), mode))

\* post_violation_comments(violations, dry_run): the calls made to the
\* client and the number returned
post_violation_comments(vs, is_dry_run, mode) ==
    PostLoop(vs, is_dry_run, mode, [calls |-> <<>>, comments_posted |-> 0])

\* faulty variant: the number of comments is reported as the number found
Report_posted_only(violations_found, posted) ==
    [violations_found |-> posted, comments_posted |-> posted]
\* the dict run_monotonicity_check returns
Report(violations_found, posted) ==
    [violations_found |-> violations_found, comments_posted |-> posted]

\* ----------------------------------------------------------- report inputs
\* markets of one ladder: two rungs out of order, a rung in order, and a
\* deadline the parser fails on
ReportVocab ==
    { [question |-> Render("Will X happen", <<Clause("by", "iso", 2024, 6, 30)>>),
       probability |-> 56],
      [question |-> Render("Will X happen", <<Clause("by", "iso", 2024, 6, 30)>>),
       probability |-> 50],
      [question |-> Render("Will X happen", <<Clause("before", "long", 2025, 1, 1)>>),
       probability |-> 50],
      [question |-> Render("Will X happen", <<Clause("before", "long", 1, 1, 1)>>),
       probability |-> 50] }

\* the 'id' of the i-th market of a snapshot: present, empty or absent
IdField(kind, i) ==
    CASE kind = "id" -> ("id" :> MarketIds[i])
      [] kind = "empty" -> ("id" :> "")
      [] kind = "absent" -> <<>>

ReportSnapshots ==
    { [i \in DOMAIN s |-> IdField(s[i][2], i) @@ s[i][1]] :
        s \in BoundedSeq(ReportVocab \X {"id", "empty", "absent"}, MaxReport) }

ClientModes == {"ok", "fails", "first_fails"}

\* --------------------------------------------------------------- actions
\* Evidence(**d)
EvidenceInit ==
    /\ pc = "idle"
    /\ \E d \in RawEvidence :
        /\ raw' = d
        /\ IF EvidenceValid(d)
           THEN ev' = d /\ err' = None
           ELSE ev' = None /\ err' = ValidationError
    /\ pc' = "evidence"
    /\ UNCHANGED <<x, verdict>>

\* Extraction(**d) / Extraction.model_validate(d) on input d
ModelValidate(d) ==
    /\ raw' = d
    /\ IF ExtractionValid(d)
       THEN x' = Construct(d) /\ err' = None /\ pc' = "validated"
       ELSE x' = None /\ err' = ValidationError /\ pc' = "rejected"
    /\ UNCHANGED <<ev, verdict>>

\* extract_from_text: the collaborator's JSON, validated
ExtractFromText ==
    /\ pc = "idle"
    /\ \E d \in SchemaInputs : ModelValidate(d)

\* a direct constructor call, as the tests make
ExtractionInit ==
    /\ pc = "idle"
    /\ \E d \in EdgeInputs : ModelValidate(d)

\* verdict = final_verdict(extraction)
FinalVerdict ==
    /\ pc = "validated"
    /\ verdict' = final_verdict(x)
    /\ pc' = "decided"
    /\ UNCHANGED <<raw, x, ev, err>>

GateInit ==
    /\ pc = "idle" /\ raw = None /\ x = None /\ ev = None
    /\ err = None /\ verdict = Unset

\* LadderMonotonicity(client, min_violation_size)
LadderNew ==
    /\ lpc = "new"
    /\ \E tol \in ToleranceVocab : min_violation_size' = tol
    /\ lpc' = "ready"
    /\ UNCHANGED <<markets, violations, parseVars, snapshotVars>>

\* violations = checker.check_group_monotonicity(markets)
CheckGroup ==
    /\ lpc = "ready"
    /\ \E ms \in MarketLists :
        /\ markets' = ms
        /\ IF check_group_raises(ms)
           THEN lpc' = "raised" /\ UNCHANGED violations
           ELSE /\ lpc' = "checked"
                /\ violations' = check_group_monotonicity(ms, min_violation_size)
    /\ UNCHANGED <<min_violation_size, parseVars, snapshotVars>>

\* deadline = checker.extract_deadline_from_question(question)
ExtractDeadline ==
    /\ lpc = "ready"
    /\ \E a \in AskedVocab :
        LET q == Render("Will X happen", a) IN
        /\ asked' = a
        /\ qtext' = q
        /\ IF Deadlines[q] = OverflowError
           THEN lpc' = "parse_raised" /\ UNCHANGED deadline
           ELSE lpc' = "parsed" /\ deadline' = Deadlines[q]
    /\ UNCHANGED <<markets, min_violation_size, violations, snapshotVars>>

\* groups = checker.group_markets_by_base_question(markets)
GroupMarkets ==
    /\ lpc = "ready"
    /\ \E ms \in SnapshotLists :
        /\ markets' = ms
        /\ grouped' = group_markets_by_base_question(ms)
    /\ lpc' = "grouped"
    /\ UNCHANGED <<min_violation_size, violations, parseVars,
                   all_violations, earlier_violations>>

\* one call checker.check_all_violations(ms); lpc becomes `returned` when the
\* call returns and `raised` when it raises
CheckAllCall(ms, returned, raised) ==
    /\ earlier_violations' = all_violations
    /\ IF check_all_raises(ms)
       THEN lpc' = raised /\ UNCHANGED all_violations
       ELSE /\ lpc' = returned
            /\ all_violations' = check_all_violations(ms, min_violation_size)

\* the first run on a snapshot
CheckAll ==
    /\ lpc = "ready"
    /\ \E ms \in SnapshotLists :
        markets' = ms /\ CheckAllCall(ms, "all_checked", "all_raised")
    /\ UNCHANGED <<min_violation_size, violations, parseVars, grouped>>

\* a second run on the same, unchanged snapshot
CheckAllAgain ==
    /\ lpc \in {"all_checked", "all_raised"}
    /\ CheckAllCall(markets, "rechecked", "reraised")
    /\ UNCHANGED <<markets, min_violation_size, violations, parseVars, grouped>>

\* before the checker is constructed; 5 is the constructor's default tolerance
LadderInit ==
    /\ lpc = "new" /\ markets = <<>> /\ min_violation_size = 5
    /\ violations = <<>>
    /\ asked = <<>> /\ qtext = "" /\ deadline = <<>>
    /\ grouped = <<>> /\ all_violations = <<>> /\ earlier_violations = <<>>

\* relevant = enhanced_relevance_check(item, phrasebook)
EnhancedRelevanceCheck ==
    /\ fpc = "idle"
    /\ \E item \in FilterItems, phrasebook \in Phrasebooks :
        /\ fitem' = item
        /\ fbook' = phrasebook
        /\ IF boolean_filter_raises(Title(item), phrasebook)
           THEN /\ fpc' = "filter_raised"
                /\ ferr' = KeyError
                /\ UNCHANGED <<passed, fuzzy, relevant>>
           ELSE LET primary == passes_boolean_filter(Title(item), phrasebook) IN
                /\ fpc' = "filtered"
                /\ ferr' = None
                /\ passed' = primary
                /\ fuzzy' = IF primary THEN Unset ELSE fuzzy_mine_match(Title(item))
                /\ relevant' = enhanced_relevance_check(item, phrasebook)

FilterInit ==
    /\ fpc = "idle" /\ fitem = None /\ fbook = None
    /\ passed = Unset /\ fuzzy = Unset /\ relevant = Unset /\ ferr = None

\* monitor.py at import: the environment and phrasebook.yml are read
Startup ==
    /\ cpc = "off"
    /\ COMMENT_ONLY' \in BOOLEAN
    /\ USE_LLM' \in BOOLEAN
    /\ PHRASEBOOK' \in MonitorPhrasebooks
    /\ cpc' = "idle"
    /\ UNCHANGED <<store, new_items, pending, done, failed, last>>

\* run_once up to the loop: the market is looked up (run_once raises when
\* that fails), the sources are fetched and the seen items dropped
RunOnceBegin ==
    /\ cpc = "idle"
    /\ \E connected \in BOOLEAN, items \in ItemLists :
        LET fresh == IF connected THEN NewItems(items, store) ELSE <<>> IN
        /\ new_items' = fresh
        /\ pending' = fresh
        /\ cpc' = IF connected THEN "loop" ELSE "idle"
    /\ done' = <<>> /\ failed' = {} /\ last' = None
    /\ UNCHANGED <<configVars, store>>

\* one pass of `for it in new_items:`
ProcessItem ==
    /\ cpc = "loop" /\ pending # <<>>
    /\ \E reply \in ReplyVocab, label \in AllowedLabel,
          comment_ok \in BOOLEAN, order_ok \in BOOLEAN :
        LET it == Head(pending)
            entry == IF USE_LLM
                     THEN LlmBody(it, COMMENT_ONLY, reply, comment_ok, order_ok)
                     ELSE FallbackBody(it, label, comment_ok)
        IN /\ last' = entry
           /\ store' = mark_seen(store, it, Raised(entry))
           /\ failed' = failed \cup {<<Identity(it), step>> : step \in entry.failures}
           /\ done' = Append(done, Identity(it))
    /\ pending' = Tail(pending)
    /\ UNCHANGED <<cpc, configVars, new_items>>

\* the loop is over and run_once returns
RunOnceEnd ==
    /\ cpc = "loop" /\ pending = <<>>
    /\ cpc' = "idle"
    /\ UNCHANGED <<configVars, store, new_items, pending, done, failed, last>>

\* before monitor.py is imported; the seen table is empty
CycleInit ==
    /\ cpc = "off" /\ COMMENT_ONLY = TRUE /\ USE_LLM = FALSE
    /\ PHRASEBOOK = FallbackPhrasebook
    /\ store = {} /\ new_items = <<>> /\ pending = <<>>
    /\ done = <<>> /\ failed = {} /\ last = None

\* ManifoldClient(api_key, max_retries=...)
ClientNew ==
    /\ kpc = "new"
    /\ \E m \in 0..MaxRetries : max_retries' = m
    /\ kpc' = "idle"
    /\ UNCHANGED <<limit_order, request, attempt, http, kresult>>

\* self._make_request(method, path, ...) is entered
Enter(req) ==
    /\ request' = req /\ attempt' = 0 /\ http' = <<>>
    /\ kresult' = None /\ kpc' = "requesting"

\* place_limit(order), also through place_limit_yes and place_limit_no:
\* order.payload() is evaluated before _make_request is entered
PlaceLimit ==
    /\ kpc = "idle"
    /\ \E outcome \in {Outcome.YES, Outcome.NO},
          amount \in AmountVocab, limit_prob \in LimitProbVocab :
        LET o == LimitOrder("m1", outcome, amount, limit_prob) IN
        /\ limit_order' = o
        /\ IF validate_raises(o)
           THEN /\ kpc' = "raised" /\ kresult' = ValueError
                /\ UNCHANGED <<request, attempt, http>>
           ELSE Enter(Request("POST", "/bet", order_payload(o)))
    /\ UNCHANGED max_retries

\* post_comment(comment)
PostComment ==
    /\ kpc = "idle"
    /\ \E c \in CommentVocab : Enter(Request("POST", "/comment", comment_payload(c)))
    /\ UNCHANGED <<max_retries, limit_order>>

\* _make_request(method, path) called directly, as _get_markets and
\* get_market_by_slug do
MakeRequest ==
    /\ kpc = "idle"
    /\ \E method \in MethodVocab, path \in PathVocab :
        Enter(Request(method, path, None))
    /\ UNCHANGED <<max_retries, limit_order>>

\* what follows the HTTP attempt with outcome r when the iteration throws e
\* (None: nothing): the next iteration, the exception, or the JSON body
AfterAttempt(r, e, json_is_request_exception) ==
    IF \/ Continues(r, attempt, max_retries)
       \/ e # None /\ Retries(e, attempt, max_retries, json_is_request_exception)
    THEN attempt' = attempt + 1 /\ UNCHANGED <<kpc, kresult>>
    ELSE IF e # None
    THEN kpc' = "raised" /\ kresult' = e /\ UNCHANGED attempt
    ELSE kpc' = "returned" /\ kresult' = Json(r) /\ UNCHANGED attempt

\* one iteration of `for attempt in range(self.max_retries)`
Attempt ==
    /\ kpc = "requesting" /\ attempt < max_retries
    /\ IF Upper(request.method) \notin {"GET", "POST"}
       THEN /\ kpc' = "raised" /\ kresult' = ValueError
            /\ UNCHANGED <<attempt, http>>
       ELSE \E r \in ResponseVocab, json_is_request_exception \in BOOLEAN :
            /\ http' = Append(http, r)
            /\ AfterAttempt(r, Thrown(r, attempt, max_retries), json_is_request_exception)
    /\ UNCHANGED <<max_retries, limit_order, request>>

\* the loop is over: raise RuntimeError("Max retries exceeded")
Exhausted ==
    /\ kpc = "requesting" /\ attempt >= max_retries
    /\ kpc' = "raised" /\ kresult' = RuntimeError
    /\ UNCHANGED <<max_retries, limit_order, request, attempt, http>>

\* before the client is constructed; 3 is DEFAULT_MAX_RETRIES
ClientInit ==
    /\ kpc = "new" /\ max_retries = 3 /\ limit_order = None /\ request = None
    /\ attempt = 0 /\ http = <<>> /\ kresult = None

\* SpreadsheetSink(output_path): the header is written when there is no file
SinkNew ==
    /\ spc = "new"
    /\ \E exists \in BOOLEAN, earlier \in EarlierRows :
        /\ csv_file' = IF exists
                       THEN File(TRUE, <<headers>> \o [i \in DOMAIN earlier |-> CsvLine(earlier[i])])
                       ELSE File(TRUE, <<headers>>)
        /\ appended' = IF exists THEN earlier ELSE <<>>
    /\ spc' = "ready"
    /\ UNCHANGED <<sink_raised, pnl>>

\* sink.append_row(row)
AppendRow ==
    /\ spc \in {"ready", "got"} /\ Len(appended) < MaxRows
    /\ \E row \in RowVocab :
        /\ IF append_to_csv_thrown(row) = None
           THEN /\ csv_file' = File(TRUE, Append(csv_file.lines, CsvLine(row)))
                /\ appended' = Append(appended, row)
           ELSE UNCHANGED <<csv_file, appended>>
        /\ sink_raised' = append_row_thrown(append_to_csv_thrown(row))
    /\ spc' = "ready"
    /\ UNCHANGED pnl

\* pnl = sink.get_cumulative_pnl()
GetCumulativePnl ==
    /\ spc = "ready"
    /\ pnl' = get_cumulative_pnl(csv_file)
    /\ spc' = "got"
    /\ UNCHANGED <<csv_file, appended, sink_raised>>

\* before the sink is constructed
SinkInit ==
    /\ spc = "new" /\ csv_file = File(FALSE, <<>>) /\ appended = <<>>
    /\ sink_raised = None /\ pnl = 0

\* the outcome of post_violation_comments(vs, dry_run) is recorded
Posting(vs, is_dry_run, mode, outcome) ==
    /\ found' = vs /\ dry_run' = is_dry_run /\ client_mode' = mode
    /\ calls' = outcome.calls
    /\ comments_posted' = outcome.comments_posted

\* n = checker.post_violation_comments(violations, dry_run); dry_run
\* defaults to False here
PostViolationComments ==
    /\ rpc = "idle"
    /\ \E ms \in ReportSnapshots, tol \in ToleranceVocab,
          is_dry_run \in BOOLEAN, mode \in ClientModes :
        /\ ~check_all_raises(ms)
        /\ Posting(check_all_violations(ms, tol), is_dry_run, mode,
                   post_violation_comments(check_all_violations(ms, tol), is_dry_run, mode))
    /\ rpc' = "posted"
    /\ UNCHANGED <<markets_given, report>>

\* run_monotonicity_check(markets, dry_run) for a market list
RunWithMarkets(ms, tol, is_dry_run, mode) ==
    IF check_all_raises(ms)
    THEN /\ rpc' = "raised"
         /\ dry_run' = is_dry_run /\ client_mode' = mode
         /\ UNCHANGED <<found, calls, comments_posted, report>>
    ELSE /\ rpc' = "reported"
         /\ Posting(check_all_violations(ms, tol), is_dry_run, mode,
                    post_violation_comments(check_all_violations(ms, tol), is_dry_run, mode))
         /\ report' = Report(Len(found'), comments_posted')

\* report = checker.run_monotonicity_check(markets, dry_run); dry_run
\* defaults to True here
RunMonotonicityCheck ==
    /\ rpc = "idle"
    /\ \E ms \in ReportSnapshots, tol \in ToleranceVocab,
          is_dry_run \in BOOLEAN, mode \in ClientModes :
        RunWithMarkets(ms, tol, is_dry_run, mode)
    /\ markets_given' = TRUE

\* report = checker.run_monotonicity_check(None, dry_run)
RunWithoutMarkets ==
    /\ rpc = "idle"
    /\ \E is_dry_run \in BOOLEAN, mode \in ClientModes :
        dry_run' = is_dry_run /\ client_mode' = mode
    /\ markets_given' = FALSE
    /\ report' = Report(0, 0)
    /\ rpc' = "reported"
    /\ UNCHANGED <<found, calls, comments_posted>>

\* a checker and its client, before any call
ReportInit ==
    /\ rpc = "idle" /\ markets_given = FALSE /\ found = <<>>
    /\ dry_run = TRUE /\ client_mode = "ok"
    /\ calls = <<>> /\ comments_posted = 0 /\ report = None

Init ==
    /\ GateInit /\ LadderInit /\ FilterInit /\ CycleInit
    /\ ClientInit /\ SinkInit /\ ReportInit

Next ==
    \/ EvidenceInit /\ UNCHANGED <<ladderVars, filterVars, cycleVars, serviceVars>>
    \/ ExtractFromText /\ UNCHANGED <<ladderVars, filterVars, cycleVars, serviceVars>>
    \/ ExtractionInit /\ UNCHANGED <<ladderVars, filterVars, cycleVars, serviceVars>>
    \/ FinalVerdict /\ UNCHANGED <<ladderVars, filterVars, cycleVars, serviceVars>>

Spec == Init /\ [][Next]_vars

NextLadder ==
    \/ LadderNew /\ UNCHANGED <<gateVars, filterVars, cycleVars, serviceVars>>
    \/ CheckGroup /\ UNCHANGED <<gateVars, filterVars, cycleVars, serviceVars>>
    \/ ExtractDeadline /\ UNCHANGED <<gateVars, filterVars, cycleVars, serviceVars>>
    \/ GroupMarkets /\ UNCHANGED <<gateVars, filterVars, cycleVars, serviceVars>>
    \/ CheckAll /\ UNCHANGED <<gateVars, filterVars, cycleVars, serviceVars>>
    \/ CheckAllAgain /\ UNCHANGED <<gateVars, filterVars, cycleVars, serviceVars>>

SpecLadder == Init /\ [][NextLadder]_vars

NextFilter ==
    \/ EnhancedRelevanceCheck /\ UNCHANGED <<gateVars, ladderVars, cycleVars, serviceVars>>

SpecFilter == Init /\ [][NextFilter]_vars

NextCycle ==
    \/ Startup /\ UNCHANGED <<gateVars, ladderVars, filterVars, serviceVars>>
    \/ RunOnceBegin /\ UNCHANGED <<gateVars, ladderVars, filterVars, serviceVars>>
    \/ ProcessItem /\ UNCHANGED <<gateVars, ladderVars, filterVars, serviceVars>>
    \/ RunOnceEnd /\ UNCHANGED <<gateVars, ladderVars, filterVars, serviceVars>>

SpecCycle == Init /\ [][NextCycle]_vars

NextClient ==
    \/ ClientNew /\ UNCHANGED <<gateVars, ladderVars, filterVars, cycleVars, sinkVars, reportVars>>
    \/ PlaceLimit /\ UNCHANGED <<gateVars, ladderVars, filterVars, cycleVars, sinkVars, reportVars>>
    \/ PostComment /\ UNCHANGED <<gateVars, ladderVars, filterVars, cycleVars, sinkVars, reportVars>>
    \/ MakeRequest /\ UNCHANGED <<gateVars, ladderVars, filterVars, cycleVars, sinkVars, reportVars>>
    \/ Attempt /\ UNCHANGED <<gateVars, ladderVars, filterVars, cycleVars, sinkVars, reportVars>>
    \/ Exhausted /\ UNCHANGED <<gateVars, ladderVars, filterVars, cycleVars, sinkVars, reportVars>>

SpecClient == Init /\ [][NextClient]_vars

\* every HTTP attempt ends (the requests are made with a timeout) and every
\* sleep is finite, so a call that is in its loop takes its next step
SpecClientLive ==
    SpecClient /\ WF_clientVars(Attempt) /\ WF_clientVars(Exhausted)

NextSink ==
    \/ SinkNew /\ UNCHANGED <<gateVars, ladderVars, filterVars, cycleVars, clientVars, reportVars>>
    \/ AppendRow /\ UNCHANGED <<gateVars, ladderVars, filterVars, cycleVars, clientVars, reportVars>>
    \/ GetCumulativePnl /\ UNCHANGED <<gateVars, ladderVars, filterVars, cycleVars, clientVars, reportVars>>

SpecSink == Init /\ [][NextSink]_vars

NextReport ==
    \/ PostViolationComments /\ UNCHANGED <<gateVars, ladderVars, filterVars, cycleVars, clientVars, sinkVars>>
    \/ RunMonotonicityCheck /\ UNCHANGED <<gateVars, ladderVars, filterVars, cycleVars, clientVars, sinkVars>>
    \/ RunWithoutMarkets /\ UNCHANGED <<gateVars, ladderVars, filterVars, cycleVars, clientVars, sinkVars>>

SpecReport == Init /\ [][NextReport]_vars

\* ------------------------------------------------ the gate's conditions,
\* stated on the Extraction itself (not through the gate's code)
Decided == pc = "decided"

LabelIsYes == x.proposed_label = "YES_CONDITION"
StrongMatch == x.mine_match = "JIANXIAWO_MATCH"
ConfidenceAdmits == x.confidence >= MIN_CONF
FoundYesTerm ==
    \/ \E i \in DOMAIN x.key_terms_found_en : Lower(x.key_terms_found_en[i]) \in YES_EN
    \/ \E i \in DOMAIN x.key_terms_found_zh : x.key_terms_found_zh[i] \in YES_ZH
FoundNoTerm ==
    \/ \E i \in DOMAIN x.key_terms_found_en : Lower(x.key_terms_found_en[i]) \in NO_EN
    \/ \E i \in DOMAIN x.key_terms_found_zh : x.key_terms_found_zh[i] \in NO_ZH
FoundExplorationTerm ==
    \/ \E i \in DOMAIN x.key_terms_found_en :
          Contains(Lower(x.key_terms_found_en[i]), "exploration")
    \/ \E i \in DOMAIN x.key_terms_found_zh :
          Contains(x.key_terms_found_zh[i], <<"kan1","tan4">>)
NonBlank(s) == \E k \in 1..Len(s) : ~IsSpace(SubSeq(s, k, k))
QuotedEvidence ==
    \E i \in DOMAIN x.evidence : NonBlank(x.evidence[i].exact_zh_quote)

AllSevenHold ==
    /\ LabelIsYes /\ StrongMatch /\ ConfidenceAdmits /\ FoundYesTerm
    /\ QuotedEvidence /\ ~FoundExplorationTerm /\ ~FoundNoTerm

\* C1: for every valid Extraction, final_verdict returns YES_CONDITION if and
\* only if all seven affirmative conditions hold together (confidence equal to
\* MIN_CONF admits; English terms compared lower-cased, Chinese verbatim).
C1_YesIffAllSeven ==
    Decided => (verdict = "YES_CONDITION" <=> AllSevenHold)

\* C1 witness: a YES verdict at confidence exactly MIN_CONF, earned by a
\* mixed-case English term alone.
C1_Witness ==
    /\ Decided /\ verdict = "YES_CONDITION"
    /\ x.confidence = MIN_CONF
    /\ x.key_terms_found_en = <<"Resume Production">>
    /\ x.key_terms_found_zh = <<>>

\* The six conditions of the flip property; the last groups the absence of
\* negative and of exploration terms.
Condition(c) ==
    CASE c = 1 -> LabelIsYes
      [] c = 2 -> StrongMatch
      [] c = 3 -> ConfidenceAdmits
      [] c = 4 -> FoundYesTerm
      [] c = 5 -> QuotedEvidence
      [] c = 6 -> ~FoundNoTerm /\ ~FoundExplorationTerm

\* condition c is false and the five others are true
OnlyFails(c) == \A k \in 1..6 : Condition(k) <=> (k # c)

\* C2: an Extraction that differs from a fully admitted one in exactly one
\* affirmative condition being false gets AMBIGUOUS: never NO_CONDITION, never
\* YES_CONDITION.
C2_SingleFlipAmbiguous ==
    \A c \in 1..6 : (Decided /\ OnlyFails(c)) => verdict = "AMBIGUOUS"

\* C2 witness: only the absence of negative terms is flipped, by a negative
\* term next to the affirmative one; the record would satisfy a negative gate
\* that did not read the label.
C2_Witness ==
    /\ Decided /\ OnlyFails(6)
    /\ FoundNoTerm /\ verdict = "AMBIGUOUS"

\* C3: confidence strictly below MIN_CONF gives AMBIGUOUS whatever the label,
\* match strength, terms and evidence.
C3_LowConfidenceAmbiguous ==
    (Decided /\ x.confidence < MIN_CONF) => verdict = "AMBIGUOUS"

\* C3 witness: one hundredth below the minimum, with everything else the
\* negative gate asks for.
C3_Witness ==
    /\ Decided /\ x.confidence = MIN_CONF - 1
    /\ x.proposed_label = "NO_CONDITION" /\ x.mine_match # "NO_MATCH"
    /\ FoundNoTerm /\ verdict = "AMBIGUOUS"

\* C4: final_verdict returns YES_CONDITION, NO_CONDITION or AMBIGUOUS, and an
\* Extraction labelled IRRELEVANT or AMBIGUOUS gets AMBIGUOUS.
C4_VerdictRange ==
    Decided =>
        /\ verdict \in {"YES_CONDITION", "NO_CONDITION", "AMBIGUOUS"}
        /\ (x.proposed_label \in {"IRRELEVANT", "AMBIGUOUS"} => verdict = "AMBIGUOUS")

\* C4 witness: an IRRELEVANT record that carries a negative term at full
\* confidence.
C4_Witness ==
    /\ Decided /\ x.proposed_label = "IRRELEVANT"
    /\ x.confidence = 100 /\ FoundNoTerm /\ verdict = "AMBIGUOUS"

NegativeFourHold ==
    /\ x.proposed_label = "NO_CONDITION"
    /\ x.mine_match # "NO_MATCH"
    /\ FoundNoTerm
    /\ ConfidenceAdmits

\* C5: final_verdict returns NO_CONDITION if and only if the affirmative gate
\* does not admit and the four negative conditions hold; affirmative terms and
\* missing evidence do not block it.
C5_NoIffNegativeFour ==
    Decided => (verdict = "NO_CONDITION" <=> (~AllSevenHold /\ NegativeFourHold))

\* C5 witness: NO_CONDITION for a merely possible match, with an affirmative
\* term among the terms and no evidence at all.
C5_Witness ==
    /\ Decided /\ verdict = "NO_CONDITION"
    /\ x.mine_match = "POSSIBLE_MATCH"
    /\ FoundYesTerm /\ x.evidence = <<>>

\* C6 as stated: every YES_CONDITION or NO_CONDITION verdict rests on an
\* evidence entry with a non-empty quote.
C6_Original ==
    (Decided /\ verdict \in {"YES_CONDITION", "NO_CONDITION"}) =>
        \E i \in DOMAIN x.evidence : Len(x.evidence[i].exact_zh_quote) > 0

\* C6 amended: every YES_CONDITION verdict rests on an evidence entry whose
\* quote is not blank (a NO_CONDITION verdict is not tied to evidence).
C6_YesVerdictQuoted ==
    (Decided /\ verdict = "YES_CONDITION") => QuotedEvidence

\* C6 witness: a YES verdict whose first evidence entry is blank and whose
\* second carries the quote.
C6_Witness ==
    /\ Decided /\ verdict = "YES_CONDITION"
    /\ Len(x.evidence) = 2
    /\ ~NonBlank(x.evidence[1].exact_zh_quote)
    /\ NonBlank(x.evidence[2].exact_zh_quote)

\* ---------------------------------------------------- validation claims
Called == pc \in {"validated", "rejected", "decided"}
Accepted == err = None /\ x # None
Rejected == err = ValidationError /\ x = None

RawEvidenceList == Get(raw, "evidence", <<>>)
RawOthersWellFormed ==
    /\ "doc_url" \in DOMAIN raw
    /\ \A i \in DOMAIN RawEvidenceList : EvidenceFields \subseteq DOMAIN RawEvidenceList[i]
RawConfidenceInRange ==
    "confidence" \in DOMAIN raw /\ raw.confidence >= 0 /\ raw.confidence <= 100
RawEnumsKnown ==
    /\ raw.mine_match \in {"JIANXIAWO_MATCH", "POSSIBLE_MATCH", "NO_MATCH"}
    /\ raw.proposed_label \in {"YES_CONDITION", "NO_CONDITION", "AMBIGUOUS", "IRRELEVANT"}

\* C7 as stated: an input with an empty evidence list is accepted only when
\* its label is IRRELEVANT or AMBIGUOUS.
C7_Original ==
    (Called /\ RawEvidenceList = <<>> /\ Accepted) =>
        raw.proposed_label \in {"IRRELEVANT", "AMBIGUOUS"}

\* C7 amended: an input with an empty evidence list is accepted for every
\* label of the enumeration, YES_CONDITION and NO_CONDITION included, whenever
\* its other fields are valid; such a record reaches the gate, where the empty
\* list keeps the verdict from being YES_CONDITION.
C7_EmptyEvidenceAccepted ==
    /\ (Called /\ RawEvidenceList = <<>>) =>
          (Accepted <=> ("doc_url" \in DOMAIN raw /\ RawConfidenceInRange /\ RawEnumsKnown))
    /\ (Decided /\ x.evidence = <<>>) => verdict # "YES_CONDITION"

\* C7 witness: a YES_CONDITION record without evidence, accepted and decided.
C7_Witness ==
    /\ Decided /\ raw.proposed_label = "YES_CONDITION"
    /\ RawEvidenceList = <<>> /\ x.evidence = <<>> /\ verdict = "AMBIGUOUS"

\* C8: with the other fields well formed, constructing an Extraction succeeds
\* exactly when confidence is in [0,1] and both enumerated fields hold known
\* values; an out-of-range confidence or unknown value always raises and
\* leaves no record, and an accepted value is stored as given.
C8_RangeAndEnums ==
    Called =>
        /\ Accepted \/ Rejected
        /\ Accepted => (RawConfidenceInRange /\ RawEnumsKnown)
        /\ (RawOthersWellFormed /\ RawConfidenceInRange /\ RawEnumsKnown) => Accepted
        /\ Accepted =>
              /\ x.confidence = raw.confidence
              /\ x.mine_match = raw.mine_match
              /\ x.proposed_label = raw.proposed_label

\* C8 witness: the upper end of the interval is accepted.
C8_Witness ==
    /\ pc = "validated" /\ Accepted /\ raw.confidence = 100
    /\ "evidence" \notin DOMAIN raw

\* C9 as stated: an Evidence that passes validation has its three fields
\* present and non-empty.
C9_Original ==
    (pc = "evidence" /\ err = None) =>
        \A f \in {"exact_zh_quote", "en_literal", "where_in_doc"} :
            f \in DOMAIN ev /\ Len(ev[f]) > 0

\* C9 amended: an Evidence passes validation exactly when its three fields
\* are present; a missing field raises a validation error, an empty string
\* does not.
C9_FieldsPresent ==
    pc = "evidence" =>
        /\ (err = None <=>
              {"exact_zh_quote", "en_literal", "where_in_doc"} \subseteq DOMAIN raw)
        /\ (err = None => ev = raw)
        /\ (err # None => err = ValidationError /\ ev = None)

\* C9 witness: an Evidence made of three empty strings is accepted.
C9_Witness ==
    /\ pc = "evidence" /\ err = None /\ ev # None
    /\ ev.exact_zh_quote = "" /\ ev.en_literal = "" /\ ev.where_in_doc = ""

\* ---------------------------------------------------------- ladder claims
Checked == lpc = "checked"

Deadline(a) == Deadlines[markets[a].question]
HasDeadline(a) == Len(Deadline(a)) > 0

\* market a stands before market b in the deadline-sorted sequence: both have
\* a deadline, and a's is earlier, or the same with a earlier in the input
SortedBefore(a, b) ==
    /\ HasDeadline(a) /\ HasDeadline(b)
    /\ \/ Deadline(a)[1] < Deadline(b)[1]
       \/ Deadline(a)[1] = Deadline(b)[1] /\ a < b

ProbOf(a) == IF "probability" \in DOMAIN markets[a] THEN markets[a].probability ELSE 0

Reported(a, b) ==
    \E k \in DOMAIN violations :
        /\ violations[k].earlier_market = markets[a]
        /\ violations[k].later_market = markets[b]

DeadlineOf(market) == Deadlines[market.question][1]

\* the position in the input list of a market held in a violation
PositionOf(market) == CHOOSE a \in DOMAIN markets : markets[a] = market

\* C11: every violation that check_group_monotonicity emits has
\* violation_size = earlier_prob - later_prob, greater than
\* min_violation_size; the probabilities are those of its two markets; and
\* the deadline of its earlier_market is not later than that of its
\* later_market, wherever the two markets stand in the input list.
C11_ViolationShape ==
    Checked =>
        \A k \in DOMAIN violations :
            LET v == violations[k] IN
            /\ v.violation_size = v.earlier_prob - v.later_prob
            /\ v.violation_size > min_violation_size
            /\ v.earlier_prob = ProbOf(PositionOf(v.earlier_market))
            /\ v.later_prob = ProbOf(PositionOf(v.later_market))
            /\ DeadlineOf(v.earlier_market) <= DeadlineOf(v.later_market)

\* C11 witness: a violation whose earlier_market has the strictly earlier
\* deadline and stands after its later_market in the input list.
C11_Witness ==
    /\ Checked
    /\ \E k \in DOMAIN violations :
          /\ DeadlineOf(violations[k].earlier_market)
                < DeadlineOf(violations[k].later_market)
          /\ PositionOf(violations[k].earlier_market)
                > PositionOf(violations[k].later_market)

Grouped == lpc = "grouped"

\* The base question of a market as the question was written: its text
\* without the deadline clauses ('' for a market without a question).
WrittenBase(market) ==
    IF "question" \notin DOMAIN market THEN ""
    ELSE LET w == CHOOSE v \in SnapshotWritten :
                      Render(v[1], v[2]) = market.question
         IN Render(w[1], <<>>)

\* the groups a market of the input list is a member of
GroupsOf(a) ==
    {k \in DOMAIN grouped :
        \E i \in DOMAIN grouped[k].markets : grouped[k].markets[i] = markets[a]}

SharesBase(a) ==
    \E b \in DOMAIN markets : b # a /\ WrittenBase(markets[b]) = WrittenBase(markets[a])

\* C12: group_markets_by_base_question partitions the markets by equality of
\* their base question (the question without its 'by ...' / 'before ...'
\* clause, trimmed): every group has at least two markets, the members of a
\* group have the same base question, a market is in at most one group, a
\* market whose base question no other market shares is in none, and one
\* whose base question another market shares is in a group.
C12_Original ==
    Grouped =>
        /\ \A k \in DOMAIN grouped : Len(grouped[k].markets) >= 2
        /\ \A k \in DOMAIN grouped : \A i, j \in DOMAIN grouped[k].markets :
              WrittenBase(grouped[k].markets[i]) = WrittenBase(grouped[k].markets[j])
        /\ \A a \in DOMAIN markets :
              /\ Cardinality(GroupsOf(a)) <= 1
              /\ SharesBase(a) <=> GroupsOf(a) # {}

Rechecked == lpc = "rechecked"

Parsed == lpc = "parsed"
ParseCalled == lpc \in {"parsed", "parse_raised"}

\* what a clause says, read from its parts and not from the text
Exists(c) == ValidDate(c.y, c.m, c.d)
DateOf(c) == ToOrdinal(c.y, c.m, c.d)

\* the calendar day before the day a clause names
DayBefore(c) ==
    IF c.d > 1 THEN ToOrdinal(c.y, c.m, c.d - 1)
    ELSE IF c.m > 1 THEN ToOrdinal(c.y, c.m - 1, DaysInMonth(c.y, c.m - 1))
    ELSE ToOrdinal(c.y - 1, 12, 31)

\* C14: a question with 'by YYYY-MM-DD' is mapped to exactly that date, one
\* with 'by Month D, YYYY' to that date, and one with 'before Month D, YYYY'
\* to the calendar day before that date; stated for questions written with
\* one deadline clause that names a day of the calendar.
C14_Original ==
    (ParseCalled /\ Len(asked) = 1 /\ Exists(asked[1])) =>
        LET c == asked[1] IN
        /\ (Lower(c.kw) = "by" /\ c.fmt \in {"iso", "long"}) =>
              (Parsed /\ deadline = <<DateOf(c)>>)
        /\ (c.kw = "before" /\ c.fmt = "long") =>
              (Parsed /\ deadline = <<DayBefore(c)>>)

\* the three pattern families, as what a clause was written to be
IsIsoBy(c) == Lower(c.kw) = "by" /\ c.fmt = "iso"
IsMonthBy(c) == Lower(c.kw) = "by" /\ c.fmt \in {"long", "abbr"}
IsBefore(c) == c.kw = "before" /\ c.fmt \in {"long", "abbr"}

InFamily(family, c) ==
    CASE family = "iso" -> IsIsoBy(c)
      [] family = "month" -> IsMonthBy(c)
      [] family = "before" -> IsBefore(c)

\* the first clause of a family in the question, <<>> if there is none
FirstOf(a, family) ==
    LET hits == {i \in DOMAIN a : InFamily(family, a[i])}
    IN IF hits = {} THEN <<>> ELSE <<a[Min(hits)]>>

\* The families tried in the order ISO after 'by', month name after 'by',
\* 'before'; each on its first clause; the first that parses decides.  A
\* month name after 'before' parses only when written in full.
FirstThatParses(a) ==
    LET iso == FirstOf(a, "iso")
        month == FirstOf(a, "month")
        before == FirstOf(a, "before")
    IN IF iso # <<>> /\ Exists(iso[1]) THEN <<DateOf(iso[1])>>
       ELSE IF month # <<>> /\ Exists(month[1]) THEN <<DateOf(month[1])>>
       ELSE IF before # <<>> /\ before[1].fmt = "long" /\ Exists(before[1])
            THEN <<DayBefore(before[1])>>
       ELSE <<>>

\* C15: extract_deadline_from_question tries the families in the fixed order
\* ISO after 'by', month name after 'by', 'before', and returns the first
\* that parses; a family whose clause names a day that does not exist falls
\* through to the next; when none parses the result is None; the call never
\* raises.
C15_Original ==
    ParseCalled => (Parsed /\ deadline = FirstThatParses(asked))

\* ------------------------------------------- the prefilter's conditions,
\* stated on the title and the phrasebook (not through the filter's code)
Filtered == fpc = "filtered"

EntityKeys == {"company_aliases", "mine_aliases", "geo_aliases"}
AffirmativeKeys == {"yes_zh", "yes_en"}
NegativeKeys == {"no_zh", "no_en"}
ActionKeys == AffirmativeKeys \cup NegativeKeys \cup {"traditional_zh"}

\* the entries the phrasebook lists under the categories cs
Listed(cs) == UNION {Range(fbook[c]) : c \in cs \cap DOMAIN fbook}

\* a case-insensitive occurrence of the term in the title
Occurs(term) == Contains(LowerText(Title(fitem)), LowerText(term))

HasAlias == \E term \in Listed(EntityKeys) : Occurs(term)
HasAffirmative == \E term \in Listed(AffirmativeKeys) : Occurs(term)
HasAction == \E term \in Listed(ActionKeys) : Occurs(term)

\* C16 as stated: a title with an entity alias and an affirmative verb passes
\* the prefilter, and a title with an entity alias but no action term of any
\* kind does not (enhanced_relevance_check returns False).
C16_Original ==
    Filtered =>
        /\ (HasAlias /\ HasAffirmative => relevant = TRUE)
        /\ (HasAlias /\ ~HasAction => relevant = FALSE)

\* C16: a title with an entity alias and an affirmative verb passes the
\* prefilter; a title with an entity alias but no action term of any kind
\* fails the boolean filter, and enhanced_relevance_check returns for it what
\* the fuzzy mine match returns.
C16_AliasAlone ==
    Filtered =>
        /\ (HasAlias /\ HasAffirmative => relevant = TRUE)
        /\ (HasAlias /\ ~HasAction => passed = FALSE /\ relevant = fuzzy)

\* an alias alone, no spelling of the mine in the title: not relevant
C16_Witness ==
    /\ Filtered
    /\ HasAlias /\ ~HasAction
    /\ fuzzy = FALSE /\ relevant = FALSE

\* C17 as stated: the boolean filter passes a text exactly when an entity,
\* mine or geo alias occurs in it and an affirmative verb, a negative verb of
\* either language or a traditional-script variant occurs in it, all
\* case-insensitively.
C17_Original == Filtered => (passed = (HasAlias /\ HasAction))

\* C18: passes_boolean_filter never raises on a missing key, and returns False
\* whenever every entity/geo category or every action category is missing or
\* empty.
C18_MissingKeys ==
    /\ fpc # "filter_raised"
    /\ ferr = None
    /\ Filtered /\ (Listed(EntityKeys) = {} \/ Listed(ActionKeys) = {})
           => passed = FALSE

\* every entity/geo key is missing and an affirmative verb is in the title
C18_Witness ==
    /\ Filtered
    /\ EntityKeys \cap DOMAIN fbook = {}
    /\ HasAffirmative
    /\ passed = FALSE

\* ------------------------------------------------ the cycle's conditions
\* a loop body has run in this cycle
Processed == last # None

\* the prefilter's answer for the item of the most recent loop body
PassesPrefilter == enhanced_relevance_check(last.item, PHRASEBOOK)

\* C19 as stated: the extraction collaborator is invoked for an item only
\* after the item passed the relevance prefilter; an item that fails the
\* prefilter is never sent to extraction and never receives a verdict.
C19_Original ==
    Processed =>
        /\ (last.extraction_called => PassesPrefilter)
        /\ (~PassesPrefilter => ~last.extraction_called /\ last.verdict = Unset)

Identities(items) == [i \in DOMAIN items |-> Identity(items[i])]

\* C20: when a step raises for one new item, every remaining new item of the
\* cycle is still processed (the loop bodies run for the new items in order,
\* and the cycle ends only when all have run), and the failing item is marked
\* seen like every processed item.
C20_Isolation ==
    /\ \A f \in failed : f[1] \in store
    /\ Range(done) \subseteq store
    /\ cpc = "loop" => done \o Identities(pending) = Identities(new_items)
    /\ cpc = "idle" => done = Identities(new_items)

\* a finished cycle of two new items: extraction raised for the first, the
\* second got its verdict
C20_Witness ==
    /\ cpc = "idle"
    /\ Len(done) = 2 /\ done[1] # done[2]
    /\ <<done[1], "extraction">> \in failed
    /\ done[1] \in store
    /\ last.item = new_items[2]
    /\ last.failures = {} /\ last.verdict # Unset

\* ------------------------------------------------------------------ C21
Placed == limit_order # None

\* the order breaks a rule of the venue: a positive amount, a probability
\* between 0.0 and 1.0
InvalidOrder ==
    \/ limit_order.amount < 1
    \/ limit_order.limitProb < 0
    \/ limit_order.limitProb > 100

\* C21: an order whose amount is not positive or whose limit probability is
\* outside [0.0, 1.0] makes place_limit / place_limit_yes / place_limit_no
\* raise ValueError before _make_request is entered, so that no HTTP request
\* is made for it.
C21_InvalidOrderNotSent ==
    Placed /\ InvalidOrder =>
        /\ kpc = "raised" /\ kresult = ValueError
        /\ request = None /\ http = <<>>

\* an order with a good amount and a probability of 1.01 was refused
C21_Witness ==
    /\ Placed /\ limit_order.amount > 0 /\ limit_order.limitProb = 101
    /\ kpc = "raised" /\ http = <<>>

\* ------------------------------------------------------------------ C29
Finished == kpc \in {"returned", "raised"}
InLoop == kpc = "requesting"

\* the attempt got a response without an error status whose body is JSON
Successful(r) == r # ConnectionError /\ r.status < 400 /\ r.body = "{}"

OtherErrorStatus(r) ==
    r # ConnectionError /\ r.status >= 400 /\ r.status \notin {429, 500, 502, 503, 504}

\* C30: a response with an error status other than 429, 500, 502, 503 and
\* 504 ends the request on that attempt: the call has raised and no HTTP
\* attempt follows.
C30_Original ==
    \A i \in DOMAIN http :
        OtherErrorStatus(http[i]) => i = Len(http) /\ kpc = "raised"

\* ------------------------------------------------------------------ C22
PnlRead == spc = "got"

\* the pnl_cumulative the caller gave the row appended last
LastAppendedPnl ==
    IF appended = <<>> THEN 0 ELSE appended[Len(appended)]["pnl_cumulative"]

CommentsHandled == rpc = "posted" \/ (rpc = "reported" /\ markets_given)

\* the earlier market of the violation has an id
EarlierHasId(v) ==
    "id" \in DOMAIN v.earlier_market /\ v.earlier_market.id # ""

\* the violations a comment is due for, in the order of the list
Addressed == SelectSeq(found, EarlierHasId)

\* C23: without dry_run, one comment is handed to the client for every
\* violation whose earlier market has an id, addressed to that market,
\* whether or not an earlier post failed; with a client whose post_comment
\* succeeds the number returned is the number of those violations.
C23_Original ==
    CommentsHandled /\ ~dry_run =>
        /\ Len(calls) = Len(Addressed)
        /\ \A k \in DOMAIN calls :
               calls[k].contractId = Addressed[k].earlier_market.id
        /\ client_mode = "ok" => comments_posted = Len(Addressed)

\* ------------------------------------------------------------------ C24
RunReported == rpc = "reported"

\* C24: a dry run of run_monotonicity_check hands nothing to
\* client.post_comment and reports comments_posted 0, with violations_found
\* the number of violations detected; a run with markets=None reports 0 and 0
\* and posts nothing.
C24_DryRunPostsNothing ==
    /\ RunReported /\ markets_given /\ dry_run =>
        /\ calls = <<>>
        /\ report.comments_posted = 0
        /\ report.violations_found = Len(found)
    /\ RunReported /\ ~markets_given =>
        /\ calls = <<>>
        /\ report = [violations_found |-> 0, comments_posted |-> 0]

\* a dry run over a snapshot with two violations whose earlier markets have
\* ids
C24_Witness ==
    /\ RunReported /\ markets_given /\ dry_run
    /\ Len(found) >= 2 /\ Len(Addressed) = Len(found)
    /\ report.violations_found = Len(found)

\* ------------------------------------------------------------------ C25
Constructed == x # None

\* C25: no valid Extraction passes both gates, so final_verdict gives
\* NO_CONDITION exactly when the negative gate passes: the order in which it
\* asks the gates decides nothing.
C25_GatesExclusive ==
    /\ Constructed => ~(passes_yes_gate(x) /\ passes_no_gate(x))
    /\ Decided => (verdict = "NO_CONDITION" <=> passes_no_gate(x))

\* the negative gate passed an Extraction that has a strong match, an
\* affirmative term and a quote as well
C25_Witness ==
    /\ Decided /\ verdict = "NO_CONDITION"
    /\ x.mine_match = "JIANXIAWO_MATCH" /\ FoundYesTerm /\ QuotedEvidence

\* ------------------------------------------------------------------ C26
\* the permutations of 1..n
Perms(n) ==
    {p \in [1..n -> 1..n] : \A i, j \in 1..n : p[i] = p[j] => i = j}

\* the market list in the order p
Permuted(p) == [i \in DOMAIN markets |-> markets[p[i]]]

\* the (earlier market, later market) pairs of a list of violations
Pairs(vs) == {<<vs[k].earlier_market, vs[k].later_market>> : k \in DOMAIN vs}

\* C26: check_group_monotonicity returns the same set of (earlier market,
\* later market) pairs for every order of the market list, also when two
\* markets have the same deadline.
C26_Original ==
    Checked =>
        \A p \in Perms(Len(markets)) :
            Pairs(check_group_monotonicity(Permuted(p), min_violation_size))
                = Pairs(violations)

\* ------------------------------------------------------------------ C27
\* C27: each item identity (source, item_id) is processed at most once
\* across the cycles: whenever a loop body runs for an item, the item's
\* identity is not yet in the seen store, also when the identity occurs
\* more than once in the items fetched in one cycle.
C27_Original ==
    [][cpc = "loop" /\ done' # done => done'[Len(done')] \notin store]_vars

\* ------------------------------------------------------------------ C28
\* the order of the most recent loop body
Ordered == Processed /\ last.order # "none"

\* C28: a loop body places an order only when comment-only mode is off and
\* LLM analysis is on; a YES order only if passes_yes_gate holds for the
\* item's extraction, a NO order only if the final verdict is NO_CONDITION
\* and confidence >= 0.8; never for an AMBIGUOUS verdict, at most one order
\* per loop body, and none at all in comment-only mode.
C28_OrdersGated ==
    Processed =>
        /\ last.order \in {"none", "YES", "NO"}
        /\ Ordered => ~COMMENT_ONLY /\ USE_LLM /\ last.extraction # None
        /\ last.order = "YES" => passes_yes_gate(last.extraction)
        /\ last.order = "NO" =>
               /\ last.verdict = "NO_CONDITION"
               /\ last.extraction.confidence >= 80
               /\ ~passes_yes_gate(last.extraction)
        /\ last.verdict = "AMBIGUOUS" => ~Ordered
        /\ COMMENT_ONLY => ~Ordered

\* a YES order was placed for an item whose extraction passes the YES gate
C28_Witness ==
    /\ Ordered /\ last.order = "YES"
    /\ ~COMMENT_ONLY /\ USE_LLM
    /\ passes_yes_gate(last.extraction)

====
